---------------------------- MODULE Spec2Model ----------------------------
(***************************************************************************)
(* A model of the mipix camera controller: the shaker channel state        *)
(* machine (controller_shaker_channel.go), the camera part of the          *)
(* controller (controller_camera.go) and the update/draw loop with its     *)
(* configuration mutators (controller.go).                                 *)
(*                                                                         *)
(* Numbers.  TicksDuration is an unsigned machine integer: every           *)
(* TicksDuration result is reduced modulo 2^WordBits.  WordBits stands for *)
(* the 32 bits of the program and is kept small so that the checker can    *)
(* enumerate the arithmetic.  float64 values are modelled as exact         *)
(* rationals [n, d] (d = 0 encodes the non-finite values +Inf, -Inf and    *)
(* NaN); floating-point rounding is not modelled.                          *)
(***************************************************************************)
EXTENDS Integers, Sequences, FiniteSets, TLC

(***************************************************************************)
(* Bounds of the model.                                                    *)
(***************************************************************************)
WordBits == 6   \* width of TicksDuration in the model (32 in the program)
MaxFade == 2    \* largest fadeIn / duration / fadeOut argument tried
MaxTick == 4    \* the tick counter stops advancing here
MaxRate == 2    \* largest tick rate tried

Modulus == 2 ^ WordBits

\* const maxUint32 = 0xFFFF_FFFF, scaled to the model's word width
maxUint32 == Modulus - 1

\* a TicksDuration result, reduced to the width of the type
Wrap(x) == x % Modulus

(***************************************************************************)
(* float64 as exact rationals.                                             *)
(***************************************************************************)
Abs(x) == IF x < 0 THEN -x ELSE x

Sign(x) == IF x < 0 THEN -1 ELSE IF x > 0 THEN 1 ELSE 0

RECURSIVE GCD(_, _)
GCD(a, b) == IF b = 0 THEN a ELSE GCD(b, a % b)

\* the float n/d in lowest terms; d = 0 gives +Inf (n > 0), -Inf (n < 0), NaN (n = 0)
Rat(n, d) ==
    IF d = 0 THEN [n |-> Sign(n), d |-> 0]
    ELSE LET g == GCD(Abs(n), Abs(d))
             s == IF d < 0 THEN -1 ELSE 1
         IN  [n |-> (s * n) \div g, d |-> (s * d) \div g]

RInt(i) == [n |-> i, d |-> 1]

NaN == [n |-> 0, d |-> 0]

\* a NaN test that never finds one
NeverNaN(a) == FALSE

IsNaN(a) == a.d = 0 /\ a.n = 0

IsFinite(a) == a.d # 0

RNeg(a) == [n |-> -a.n, d |-> a.d]

RAdd(a, b) ==
    IF IsNaN(a) \/ IsNaN(b) THEN NaN
    ELSE IF a.d = 0 /\ b.d = 0 THEN (IF a.n = b.n THEN a ELSE NaN)
    ELSE IF a.d = 0 THEN a
    ELSE IF b.d = 0 THEN b
    ELSE Rat(a.n * b.d + b.n * a.d, a.d * b.d)

RSub(a, b) == RAdd(a, RNeg(b))

RMul(a, b) ==
    IF IsNaN(a) \/ IsNaN(b) THEN NaN
    ELSE IF a.d = 0 \/ b.d = 0 THEN Rat(Sign(a.n) * Sign(b.n), 0)
    ELSE Rat(a.n * b.n, a.d * b.d)

RDiv(a, b) ==
    IF IsNaN(a) \/ IsNaN(b) THEN NaN
    ELSE IF a.d = 0 /\ b.d = 0 THEN NaN
    ELSE IF a.d = 0 THEN Rat(a.n * (IF b.n < 0 THEN -1 ELSE 1), 0)
    ELSE IF b.d = 0 THEN RInt(0)
    ELSE IF b.n = 0 THEN Rat(Sign(a.n), 0)
    ELSE Rat(a.n * b.d, a.d * b.n)

\* a < b; every comparison with NaN is false
RLt(a, b) ==
    IF IsNaN(a) \/ IsNaN(b) THEN FALSE
    ELSE IF a.d = 0 /\ b.d = 0 THEN a.n < b.n
    ELSE IF a.d = 0 THEN a.n < 0
    ELSE IF b.d = 0 THEN b.n > 0
    ELSE a.n * b.d < b.n * a.d

RLe(a, b) == ~IsNaN(a) /\ ~IsNaN(b) /\ ~RLt(b, a)

REq(a, b) == ~IsNaN(a) /\ ~IsNaN(b) /\ a = b

RMin(a, b) == IF IsNaN(a) \/ IsNaN(b) THEN NaN ELSE IF RLt(b, a) THEN b ELSE a

\* math.Floor and math.Ceil of a finite value, as an integer
Floor(a) == a.n \div a.d

Ceil(a) == -((-a.n) \div a.d)

(***************************************************************************)
(* The shaker channel (controller_shaker_channel.go).  A channel is a      *)
(* record [shaker, elapsed, fadeIn, duration, fadeOut, offsetX, offsetY,   *)
(* wasActive]; the methods are operators from a channel to a value or to   *)
(* the channel after the call.                                             *)
(***************************************************************************)
NoShaker == "nil"

\* the zero value of shakerChannel, with the given shaker bound
shakerChannel(sh) ==
    [shaker |-> sh, elapsed |-> 0, fadeIn |-> 0, duration |-> 0, fadeOut |-> 0,
     offsetX |-> RInt(0), offsetY |-> RInt(0), wasActive |-> FALSE]

\* Activity without the final "elapsed >= fadeOut" clamp
ActivityNoClamp(ch) ==
    IF ch.elapsed = 0 THEN RInt(0)
    ELSE IF ch.elapsed < ch.fadeIn THEN Rat(ch.elapsed, ch.fadeIn)
    ELSE LET e1 == Wrap(ch.elapsed - ch.fadeIn) IN
         IF e1 <= ch.duration THEN RInt(1)
         ELSE LET e2 == Wrap(e1 - ch.duration) IN
              Rat(ch.fadeOut - e2, IF ch.fadeOut = 0 THEN 1 ELSE ch.fadeOut)

Activity(ch) ==
    IF ch.elapsed = 0 THEN RInt(0)
    ELSE IF ch.elapsed < ch.fadeIn THEN Rat(ch.elapsed, ch.fadeIn)
    ELSE LET e1 == Wrap(ch.elapsed - ch.fadeIn) IN
         IF e1 <= ch.duration THEN RInt(1)
         ELSE LET e2 == Wrap(e1 - ch.duration) IN
              IF e2 >= ch.fadeOut THEN RInt(0)
              ELSE Rat(ch.fadeOut - e2, ch.fadeOut)

IsFadingIn(ch) == ch.elapsed > 0 /\ ch.elapsed <= ch.fadeIn

IsFadingOut(ch) ==
    LET toFadeOut == Wrap(ch.fadeIn + ch.duration) IN
    ch.elapsed >= toFadeOut /\ ch.elapsed < Wrap(toFadeOut + ch.fadeOut)

IsShaking(ch) ==
    IF ch.elapsed = 0 THEN ch.fadeIn > 0 \/ ch.duration > 0
    ELSE IF ch.elapsed < ch.duration THEN TRUE
    ELSE ch.elapsed < Wrap(ch.fadeIn + ch.duration + ch.fadeOut)

\* TicksDuration(f) for a non-negative finite float f: truncation, then the width
TicksOfFloat(a) == Wrap(a.n \div a.d)

\* Start without the early return for a channel that is already fading in
StartAnew(ch, fadeIn) ==
    LET activity == Activity(ch) IN
    [ch EXCEPT !.fadeIn = fadeIn,
               !.duration = maxUint32,
               !.fadeOut = 0,
               !.elapsed = TicksOfFloat(RMul(RInt(fadeIn), activity))]

Start(ch, fadeIn) ==
    IF ch.fadeIn = fadeIn /\ IsFadingIn(ch) THEN ch
    ELSE LET activity == Activity(ch) IN
         [ch EXCEPT !.fadeIn = fadeIn,
                    !.duration = maxUint32,
                    !.fadeOut = 0,
                    !.elapsed = TicksOfFloat(RMul(RInt(fadeIn), activity))]

End(ch, fadeOut) ==
    IF ch.fadeOut = fadeOut /\ IsFadingOut(ch) THEN ch
    ELSE LET activity == Activity(ch)
             duration == Wrap(ch.elapsed - ch.fadeIn)
             elapsed  == Wrap(ch.fadeIn + duration)
         IN  [ch EXCEPT !.duration = duration,
                        !.fadeOut = fadeOut,
                        !.elapsed = Wrap(elapsed + TicksOfFloat(
                                       RMul(RInt(fadeOut), RSub(RInt(1), activity))))]

\* Trigger that forgets to store the duration
TriggerKeepsDuration(ch, fadeIn, duration, fadeOut) ==
    [Start(ch, fadeIn) EXCEPT !.fadeOut = fadeOut]

Trigger(ch, fadeIn, duration, fadeOut) ==
    [Start(ch, fadeIn) EXCEPT !.duration = duration, !.fadeOut = fadeOut]

\* Update that forgets to advance elapsed
ChannelUpdateNoAdvance(ch, index, rate, off) ==
    IF ch.shaker = NoShaker /\ index # 0 THEN ch
    ELSE IF IsShaking(ch) THEN
         [ch EXCEPT !.wasActive = TRUE, !.offsetX = off[1], !.offsetY = off[2]]
    ELSE IF ch.wasActive THEN
         [ch EXCEPT !.offsetX = RInt(0), !.offsetY = RInt(0), !.wasActive = FALSE]
    ELSE ch

\* a variant of Update that keeps wasActive set after the termination call
ChannelUpdateRepeating(ch, index, rate, off) ==
    IF ch.shaker = NoShaker /\ index # 0 THEN ch
    ELSE IF IsShaking(ch)
    THEN [ch EXCEPT !.wasActive = TRUE, !.offsetX = off[1], !.offsetY = off[2],
                    !.elapsed = Wrap(ch.elapsed + Wrap(rate))]
    ELSE IF ch.wasActive THEN [ch EXCEPT !.offsetX = RInt(0), !.offsetY = RInt(0)]
    ELSE ch

\* shakerChannel.Update; off is what the shaker's GetShakeOffsets returns
ChannelUpdate(ch, index, rate, off) ==
    IF ch.shaker = NoShaker /\ index # 0 THEN ch
    ELSE IF IsShaking(ch) THEN
         [ch EXCEPT !.wasActive = TRUE,
                    !.offsetX = off[1],
                    !.offsetY = off[2],
                    !.elapsed = Wrap(ch.elapsed + Wrap(rate))]
    ELSE IF ch.wasActive THEN
         [ch EXCEPT !.offsetX = RInt(0), !.offsetY = RInt(0), !.wasActive = FALSE]
    ELSE ch

\* the activity levels that Update hands to GetShakeOffsets on channel 0: the current
\* activity of a shaking channel, 0.0 as the termination call, or no call at all
PassedActivity(ch) ==
    IF IsShaking(ch) THEN {Activity(ch)}
    ELSE IF ch.wasActive THEN {RInt(0)}
    ELSE {}


(***************************************************************************)
(* The controller (controller.go, controller_camera.go).                   *)
(***************************************************************************)
VARIABLES
    phase,          \* where the program is: "setup" (before Run), "loop" (between
                    \* callbacks), "update" (inside Game.Update), "draw" (inside
                    \* Game.Draw), "stopped" (Game.Update returned an error)
    panicMsg,       \* "" or the message of the fatal abort that ended the program
    lastCall,       \* the last operation executed
    nCalls,         \* number of API calls made so far (bounded by the specification)
    inDraw, redrawManaged, needsRedraw, needsClear, layoutHasChanged,
    logicalWidth, logicalHeight, hiResWidth, hiResHeight,
    prevHiResCanvasWidth, prevHiResCanvasHeight, reusableCanvas,
    stretchingEnabled, keepAspectRatio, dynamicScaling,
    scalingFilter, shaders, bestFitRenderSize, bestFitContextSize,
    lastFlushCoordinatesTick, cameraArea,
    tracker, trackerCurrentX, trackerCurrentY, trackerTargetX, trackerTargetY,
    trackerPrevSpeedX, trackerPrevSpeedY,
    zoomer, zoomCurrent, zoomTarget,
    shakerChannels, shakerOffsetX, shakerOffsetY,
    currentTick, tickRate,
    defaultTracker, defaultShaker,
    flushRuns,      \* history: camera updates executed since the current Update began
    hist,           \* history: per channel, the last Start/End/Trigger and the updates since
    twin,           \* a second channel, driven beside channel 0 by the comparison runs
    queuedDraws,    \* the draw handlers queued, in order
    drawIndex,      \* controller.Draw's position in queuedDraws
    drawn           \* history: the handlers the current Draw has run, in order

loopVars   == <<phase, panicMsg, lastCall, nCalls>>
drawVars   == <<inDraw, queuedDraws, drawIndex, drawn>>
redrawVars == <<redrawManaged, needsRedraw, needsClear, layoutHasChanged>>
sizeVars   == <<logicalWidth, logicalHeight, hiResWidth, hiResHeight,
                prevHiResCanvasWidth, prevHiResCanvasHeight, reusableCanvas>>
scaleVars  == <<stretchingEnabled, keepAspectRatio, dynamicScaling,
                scalingFilter, shaders, bestFitRenderSize, bestFitContextSize>>
trackVars  == <<tracker, trackerCurrentX, trackerCurrentY, trackerTargetX,
                trackerTargetY, trackerPrevSpeedX, trackerPrevSpeedY, defaultTracker>>
zoomVars   == <<zoomer, zoomCurrent, zoomTarget>>
shakeVars  == <<shakerChannels, shakerOffsetX, shakerOffsetY, defaultShaker>>
tickVars   == <<currentTick, tickRate>>
histVars   == <<flushRuns, hist, twin>>

vars == <<loopVars, drawVars, redrawVars, sizeVars, scaleVars, lastFlushCoordinatesTick,
          cameraArea, trackVars, zoomVars, shakeVars, tickVars, histVars>>

\* everything the program itself holds (no history variable, no position in the loop)
controllerState ==
    <<drawVars, redrawVars, sizeVars, scaleVars, lastFlushCoordinatesTick, cameraArea,
      trackVars, zoomVars, shakeVars, tickVars>>

\* what a camera update (a flush) computes
cameraState ==
    <<zoomCurrent, trackerCurrentX, trackerCurrentY, trackerPrevSpeedX,
      trackerPrevSpeedY, shakerChannels, shakerOffsetX, shakerOffsetY, cameraArea>>

\* lastFlushCoordinatesTick = 0xFFFF_FFFF_FFFF_FFFF: the uint64 that no tick of a
\* bounded run equals (-1 modulo 2^64)
NeverFlushed == -1

\* Tick().UPS(): ebiten's default updates per second
UPS == 60

MaxChannel == 1     \* channels 0..MaxChannel are tried

\* the history of a channel: the last Start/End/Trigger on it with its arguments, the
\* number n of updates of the channel since, and whether each consumed one tick
NoHist ==
    [mode |-> "none", fadeIn |-> 0, duration |-> 0, fadeOut |-> 0, n |-> 0, unit |-> TRUE]

Vec(x, y) == <<x, y>>

Init ==
    /\ phase = "setup" /\ panicMsg = "" /\ lastCall = "init" /\ nCalls = 0
    /\ inDraw = FALSE /\ redrawManaged = FALSE /\ needsRedraw = TRUE
    /\ queuedDraws = <<>> /\ drawIndex = 0 /\ drawn = <<>>
    /\ needsClear = FALSE /\ layoutHasChanged = FALSE
    /\ logicalWidth = 0 /\ logicalHeight = 0 /\ hiResWidth = 0 /\ hiResHeight = 0
    /\ prevHiResCanvasWidth = 0 /\ prevHiResCanvasHeight = 0
    /\ reusableCanvas = "nil"
    /\ stretchingEnabled = FALSE /\ keepAspectRatio = FALSE /\ dynamicScaling = FALSE
    /\ scalingFilter = 0 /\ shaders = {}
    /\ bestFitRenderSize = Vec(180, 180) /\ bestFitContextSize = Vec(1000, 1000)
    /\ lastFlushCoordinatesTick = NeverFlushed
    /\ cameraArea = [minX |-> 0, minY |-> 0, maxX |-> 0, maxY |-> 0]
    /\ tracker = "nil"
    /\ trackerCurrentX = RInt(0) /\ trackerCurrentY = RInt(0)
    /\ trackerTargetX = RInt(0) /\ trackerTargetY = RInt(0)
    /\ trackerPrevSpeedX = RInt(0) /\ trackerPrevSpeedY = RInt(0)
    /\ zoomer = "nil" /\ zoomCurrent = RInt(1) /\ zoomTarget = RInt(1)
    /\ shakerChannels = <<shakerChannel(NoShaker)>>
    /\ shakerOffsetX = RInt(0) /\ shakerOffsetY = RInt(0)
    /\ currentTick = 0 /\ tickRate = 1
    /\ defaultTracker = FALSE /\ defaultShaker = FALSE
    /\ flushRuns = 0
    /\ hist = [c \in 0..MaxChannel |-> NoHist]
    /\ twin = shakerChannel(NoShaker)

\* a call made by the game's code: possible before Run and inside the callbacks
CanCall == panicMsg = "" /\ phase \in {"setup", "update", "draw"}

\* the call returns to the callback (or the setup code) that made it
Called(name) == lastCall' = name /\ phase' = phase


(***************************************************************************)
(* Camera area (controller_camera.go, internal.BestFitFloat).              *)
(***************************************************************************)
\* int(f) of a float that no int holds (NaN, +Inf, -Inf): Go leaves the result to
\* the implementation; these stand for the values the targets produce
ImplDefinedInts == {-(2 ^ 20), 0, 2 ^ 20}

\* the results int(math.Floor(a)) can have
FloorInts(a) == IF IsFinite(a) THEN {Floor(a)} ELSE ImplDefinedInts

\* the results int(math.Ceil(a)) can have
CeilInts(a) == IF IsFinite(a) THEN {Ceil(a)} ELSE ImplDefinedInts

\* image.Rect: the corners are put in order
Rect(x0, y0, x1, y1) ==
    [minX |-> IF x0 > x1 THEN x1 ELSE x0, minY |-> IF y0 > y1 THEN y1 ELSE y0,
     maxX |-> IF x0 > x1 THEN x0 ELSE x1, maxY |-> IF y0 > y1 THEN y0 ELSE y1]

\* internal.BestFitFloat.  A pointer argument is <<>> (nil) or <<v>>; the sizes are
\* whole numbers, as the controller stores them.  The result is the value returned,
\* or the runtime panic of a nil pointer dereference.
BestFitFloat(dynamicScale, layoutWidth, layoutHeight, renderWidth, renderHeight, contextWidth, contextHeight, allowBelowOne) ==
    LET rHeight == IF renderHeight # <<>> THEN renderHeight[1] ELSE renderWidth
        sx0 == IF contextWidth # <<>> THEN Rat(contextWidth[1], renderWidth)
               ELSE Rat(layoutWidth, renderWidth)
        sy0 == IF contextHeight # <<>> THEN Rat(contextHeight[1], rHeight)
               ELSE Rat(layoutHeight, rHeight)
    IN  IF dynamicScale /\ (contextWidth = <<>> \/ contextHeight = <<>> \/ renderHeight = <<>>)
        THEN [panic |-> TRUE, value |-> NaN]
        ELSE LET sx == IF dynamicScale /\ (layoutWidth < contextWidth[1] \/ layoutWidth < renderWidth)
                       THEN Rat(layoutWidth, renderWidth) ELSE sx0
                 sy == IF dynamicScale /\ (layoutHeight < contextHeight[1] \/ layoutHeight < renderHeight[1])
                       THEN Rat(layoutHeight, renderHeight[1]) ELSE sy0
                 m  == RMin(sx, sy)
             IN  [panic |-> FALSE,
                  value |-> IF allowBelowOne THEN m
                            ELSE IF RLt(m, RInt(1)) THEN RInt(1) ELSE m]

\* internal.BestFitInt: the ints that int(math.Floor(...)) can give
BestFitInt(dynamicScale, layoutWidth, layoutHeight, renderWidth, renderHeight, contextWidth, contextHeight) ==
    LET f == BestFitFloat(dynamicScale, layoutWidth, layoutHeight, renderWidth, renderHeight, contextWidth, contextHeight, FALSE)
    IN  [panic |-> f.panic, values |-> IF f.panic THEN {} ELSE FloorInts(f.value)]

\* cameraAreaF64 for the given zoom, tracked position and shake offset
cameraAreaF64(lw, lh, zoom, tx, ty, ox, oy) ==
    LET scale == BestFitFloat(dynamicScaling, hiResWidth, hiResHeight,
                              bestFitRenderSize[1], <<bestFitRenderSize[2]>>,
                              <<bestFitContextSize[1]>>, <<bestFitContextSize[2]>>,
                              TRUE).value
        zoomedWidth  == IF stretchingEnabled /\ keepAspectRatio
                        THEN RDiv(RDiv(RInt(hiResWidth), scale), zoom)
                        ELSE RDiv(RInt(lw), zoom)
        zoomedHeight == IF stretchingEnabled /\ keepAspectRatio
                        THEN RDiv(RDiv(RInt(hiResHeight), scale), zoom)
                        ELSE RDiv(RInt(lh), zoom)
        minX == RAdd(RSub(tx, RDiv(zoomedWidth, RInt(2))), ox)
        minY == RAdd(RSub(ty, RDiv(zoomedHeight, RInt(2))), oy)
    IN  [minX |-> minX, minY |-> minY,
         maxX |-> RAdd(minX, zoomedWidth), maxY |-> RAdd(minY, zoomedHeight)]

\* the float area of the current state
AreaF64 == cameraAreaF64(logicalWidth, logicalHeight, zoomCurrent, trackerCurrentX, trackerCurrentY,
                         shakerOffsetX, shakerOffsetY)

\* updateCameraArea: the rectangles it can store for a float area f
AreasOf(f) ==
    {Rect(a, b, c, d) : a \in FloorInts(f.minX), b \in FloorInts(f.minY),
                        c \in CeilInts(f.maxX), d \in CeilInts(f.maxY)}


(***************************************************************************)
(* The camera update (cameraFlushCoordinates and what it calls).           *)
(***************************************************************************)
ZoomMin == Rat(5, 1000)

\* an upper limit of the zoom twice as high
ZoomMaxDoubled == RInt(1000)

ZoomMax == RInt(500)

\* a tracker that never moves the camera
TrackerChangeFrozen(tc) == <<RInt(0), RInt(0)>>

\* what the tracker in use returns: the built-in trackers compute it, any other
\* tracker (the default one, a custom one) returns tc
TrackerChange(tc) ==
    IF tracker = "Frozen" THEN <<RInt(0), RInt(0)>>
    ELSE IF tracker = "Instant"
         THEN <<RSub(trackerTargetX, trackerCurrentX), RSub(trackerTargetY, trackerCurrentY)>>
    ELSE tc

RECURSIVE SumOffsets(_, _)
SumOffsets(bank, i) ==
    IF i > Len(bank) THEN <<RInt(0), RInt(0)>>
    ELSE LET rest == SumOffsets(bank, i + 1) IN
         <<RAdd(bank[i].offsetX, rest[1]), RAdd(bank[i].offsetY, rest[2])>>

\* the channels after updateShake's loop; offs[i] is what channel i-1's shaker returns
UpdatedChannels(bank, rate, offs) ==
    [i \in 1..Len(bank) |-> ChannelUpdate(bank[i], i - 1, rate, offs[i])]

\* the history of channel c after one more update of it
HistTick(h, rate, cap) ==
    IF h.mode = "none" THEN h
    ELSE [h EXCEPT !.n = IF h.n + 1 > cap THEN cap ELSE h.n + 1,
                   !.unit = h.unit /\ rate = 1]

\* a flush that recomputes the area first, from the values of the flush before
FlushBodyAreaFirst(zc, tc, offs) ==
    /\ lastFlushCoordinatesTick' = currentTick
    /\ flushRuns' = flushRuns + 1
    /\ IF IsNaN(zc) THEN
            /\ panicMsg' = "zoomer returned NaN"
            /\ UNCHANGED <<zoomCurrent, trackVars, shakeVars, cameraArea, needsRedraw, hist>>
       ELSE LET z1 == RAdd(zoomCurrent, zc) IN
            /\ zoomCurrent' = z1
            /\ IF RLt(z1, ZoomMin) \/ RLt(ZoomMax, z1) THEN
                    /\ panicMsg' = "something is wrong with the zoomer: after last update, "
                                   \o "zoom went outside [0.005, 500.0]"
                    /\ UNCHANGED <<tracker, trackerCurrentX, trackerCurrentY, trackerTargetX,
                                   trackerTargetY, trackerPrevSpeedX, trackerPrevSpeedY,
                                   defaultTracker, shakeVars, cameraArea, needsRedraw, hist>>
               ELSE LET change == TrackerChange(tc)
                        tx == RAdd(trackerCurrentX, change[1])
                        ty == RAdd(trackerCurrentY, change[2])
                        sx == RMul(change[1], RInt(UPS))
                        sy == RMul(change[2], RInt(UPS))
                        bank == UpdatedChannels(shakerChannels, tickRate, offs)
                        off == SumOffsets(bank, 1)
                    IN  /\ panicMsg' = ""
                        /\ trackerCurrentX' = tx /\ trackerCurrentY' = ty
                        /\ trackerPrevSpeedX' = sx /\ trackerPrevSpeedY' = sy
                        /\ defaultTracker' = (defaultTracker \/ tracker = "nil")
                        /\ shakerChannels' = bank
                        /\ shakerOffsetX' = off[1] /\ shakerOffsetY' = off[2]
                        /\ defaultShaker' = (defaultShaker \/ shakerChannels[1].shaker = NoShaker)
                        /\ needsRedraw' = (\/ needsRedraw
                                           \/ redrawManaged /\ zc # RInt(0)
                                           \/ redrawManaged /\ (sx # RInt(0) \/ sy # RInt(0))
                                           \/ redrawManaged /\ (off[1] # shakerOffsetX
                                                                \/ off[2] # shakerOffsetY))
                        /\ cameraArea' \in AreasOf(cameraAreaF64(logicalWidth, logicalHeight,
                                                                zoomCurrent, trackerCurrentX,
                                                                trackerCurrentY, shakerOffsetX,
                                                                shakerOffsetY))
                        /\ hist' = [c \in 0..MaxChannel |->
                                      IF c < Len(bank) /\ (c = 0 \/ bank[c + 1].shaker # NoShaker)
                                      THEN HistTick(hist[c], tickRate, MaxFade + 1) ELSE hist[c]]
                        /\ UNCHANGED <<tracker, trackerTargetX, trackerTargetY>>

\* the body of cameraFlushCoordinates, after its once-per-tick guard
FlushBody(zc, tc, offs) ==
    /\ lastFlushCoordinatesTick' = currentTick
    /\ flushRuns' = flushRuns + 1
    /\ IF IsNaN(zc) THEN
            /\ panicMsg' = "zoomer returned NaN"
            /\ UNCHANGED <<zoomCurrent, trackVars, shakeVars, cameraArea, needsRedraw, hist>>
       ELSE LET z1 == RAdd(zoomCurrent, zc) IN
            /\ zoomCurrent' = z1
            /\ IF RLt(z1, ZoomMin) \/ RLt(ZoomMax, z1) THEN
                    /\ panicMsg' = "something is wrong with the zoomer: after last update, "
                                   \o "zoom went outside [0.005, 500.0]"
                    /\ UNCHANGED <<tracker, trackerCurrentX, trackerCurrentY, trackerTargetX,
                                   trackerTargetY, trackerPrevSpeedX, trackerPrevSpeedY,
                                   defaultTracker, shakeVars, cameraArea, needsRedraw, hist>>
               ELSE LET change == TrackerChange(tc)
                        tx == RAdd(trackerCurrentX, change[1])
                        ty == RAdd(trackerCurrentY, change[2])
                        sx == RMul(change[1], RInt(UPS))
                        sy == RMul(change[2], RInt(UPS))
                        bank == UpdatedChannels(shakerChannels, tickRate, offs)
                        off == SumOffsets(bank, 1)
                    IN  /\ panicMsg' = ""
                        /\ trackerCurrentX' = tx /\ trackerCurrentY' = ty
                        /\ trackerPrevSpeedX' = sx /\ trackerPrevSpeedY' = sy
                        /\ defaultTracker' = (defaultTracker \/ tracker = "nil")
                        /\ shakerChannels' = bank
                        /\ shakerOffsetX' = off[1] /\ shakerOffsetY' = off[2]
                        /\ defaultShaker' = (defaultShaker \/ shakerChannels[1].shaker = NoShaker)
                        /\ needsRedraw' = (\/ needsRedraw
                                           \/ redrawManaged /\ zc # RInt(0)
                                           \/ redrawManaged /\ (sx # RInt(0) \/ sy # RInt(0))
                                           \/ redrawManaged /\ (off[1] # shakerOffsetX
                                                                \/ off[2] # shakerOffsetY))
                        /\ cameraArea' \in AreasOf(cameraAreaF64(logicalWidth, logicalHeight,
                                                                z1, tx, ty, off[1], off[2]))
                        /\ hist' = [c \in 0..MaxChannel |->
                                      IF c < Len(bank) /\ (c = 0 \/ bank[c + 1].shaker # NoShaker)
                                      THEN HistTick(hist[c], tickRate, MaxFade + 1) ELSE hist[c]]
                        /\ UNCHANGED <<tracker, trackerTargetX, trackerTargetY>>

\* what a camera update may assign
flushVars ==
    <<lastFlushCoordinatesTick, flushRuns, panicMsg, zoomCurrent, trackVars, shakeVars,
      cameraArea, needsRedraw, hist>>

\* a flush that does not look at the tick of the last flush
cameraFlushCoordinatesEveryCall(zc, tc, offs) == FlushBody(zc, tc, offs)

cameraFlushCoordinates(zc, tc, offs) ==
    IF lastFlushCoordinatesTick = currentTick
    THEN UNCHANGED flushVars
    ELSE FlushBody(zc, tc, offs)

\* AccessorCamera.FlushCoordinates, called by the game
FlushCoordinates(zc, tc, offs) ==
    /\ CanCall
    /\ Called(IF lastFlushCoordinatesTick = currentTick THEN "FlushCoordinates:skipped"
              ELSE "FlushCoordinates")
    /\ cameraFlushCoordinates(zc, tc, offs)
    /\ UNCHANGED <<drawVars, redrawManaged, needsClear, layoutHasChanged, sizeVars, scaleVars,
                   zoomer, zoomTarget, tickVars, twin>>


(***************************************************************************)
(* Tracking and zoom mutators (controller_camera.go).                      *)
(***************************************************************************)
\* a mutator's guard: the fatal abort of a call made during the draw stage, which
\* leaves the controller as it was
DrawStagePanic(msg) == panicMsg' = msg /\ UNCHANGED controllerState

cameraSetTracker(t) ==
    /\ CanCall /\ Called("cameraSetTracker")
    /\ UNCHANGED histVars
    /\ IF inDraw THEN DrawStagePanic("can't set tracker during draw stage")
       ELSE /\ tracker' = t
            /\ UNCHANGED <<panicMsg, drawVars, redrawVars, sizeVars, scaleVars,
                           lastFlushCoordinatesTick, cameraArea, trackerCurrentX,
                           trackerCurrentY, trackerTargetX, trackerTargetY,
                           trackerPrevSpeedX, trackerPrevSpeedY, defaultTracker,
                           zoomVars, shakeVars, tickVars>>

cameraNotifyCoordinates(x, y) ==
    /\ CanCall /\ Called("cameraNotifyCoordinates")
    /\ UNCHANGED histVars
    /\ IF inDraw THEN DrawStagePanic("can't notify tracking coordinates during draw stage")
       ELSE /\ trackerTargetX' = x /\ trackerTargetY' = y
            /\ UNCHANGED <<panicMsg, drawVars, redrawVars, sizeVars, scaleVars,
                           lastFlushCoordinatesTick, cameraArea, tracker, trackerCurrentX,
                           trackerCurrentY, trackerPrevSpeedX, trackerPrevSpeedY,
                           defaultTracker, zoomVars, shakeVars, tickVars>>

\* a reset that leaves the camera area to the next flush
cameraResetCoordinatesDeferred(x, y) ==
    /\ CanCall /\ Called("cameraResetCoordinates")
    /\ UNCHANGED histVars
    /\ IF inDraw THEN DrawStagePanic("can't reset camera coordinates during draw stage")
       ELSE /\ trackerTargetX' = x /\ trackerTargetY' = y
            /\ trackerCurrentX' = x /\ trackerCurrentY' = y
            /\ UNCHANGED <<panicMsg, drawVars, redrawVars, sizeVars, scaleVars,
                           lastFlushCoordinatesTick, cameraArea, tracker, trackerPrevSpeedX,
                           trackerPrevSpeedY, defaultTracker, zoomVars, shakeVars, tickVars>>

cameraResetCoordinates(x, y) ==
    /\ CanCall /\ Called("cameraResetCoordinates")
    /\ UNCHANGED histVars
    /\ IF inDraw THEN DrawStagePanic("can't reset camera coordinates during draw stage")
       ELSE /\ trackerTargetX' = x /\ trackerTargetY' = y
            /\ trackerCurrentX' = x /\ trackerCurrentY' = y
            \* the comparison reads the coordinates just assigned
            /\ needsRedraw' = (needsRedraw \/ (redrawManaged /\ (~REq(x, x) \/ ~REq(y, y))))
            /\ cameraArea' \in AreasOf(cameraAreaF64(logicalWidth, logicalHeight, zoomCurrent,
                                                    x, y, shakerOffsetX, shakerOffsetY))
            /\ UNCHANGED <<panicMsg, drawVars, redrawManaged, needsClear, layoutHasChanged,
                           sizeVars, scaleVars, lastFlushCoordinatesTick, tracker,
                           trackerPrevSpeedX, trackerPrevSpeedY, defaultTracker,
                           zoomVars, shakeVars, tickVars>>

\* cameraZoom without the draw stage guard
cameraZoomUnguarded(newZoomLevel) ==
    /\ CanCall /\ Called("cameraZoom")
    /\ UNCHANGED histVars
    /\ zoomTarget' = newZoomLevel
    /\ UNCHANGED <<panicMsg, drawVars, redrawVars, sizeVars, scaleVars,
                   lastFlushCoordinatesTick, cameraArea, trackVars, zoomer,
                   zoomCurrent, shakeVars, tickVars>>

cameraZoom(newZoomLevel) ==
    /\ CanCall /\ Called("cameraZoom")
    /\ UNCHANGED histVars
    /\ IF inDraw THEN DrawStagePanic("can't zoom during draw stage")
       ELSE /\ zoomTarget' = newZoomLevel
            /\ UNCHANGED <<panicMsg, drawVars, redrawVars, sizeVars, scaleVars,
                           lastFlushCoordinatesTick, cameraArea, trackVars, zoomer,
                           zoomCurrent, shakeVars, tickVars>>

cameraZoomReset(zoomLevel) ==
    /\ CanCall /\ Called("cameraZoomReset")
    /\ UNCHANGED histVars
    /\ IF inDraw THEN DrawStagePanic("can't reset zoom during draw stage")
       ELSE /\ zoomCurrent' = zoomLevel /\ zoomTarget' = zoomLevel
            /\ UNCHANGED <<panicMsg, drawVars, redrawVars, sizeVars, scaleVars,
                           lastFlushCoordinatesTick, cameraArea, trackVars, zoomer,
                           shakeVars, tickVars>>

cameraSetZoomer(z) ==
    /\ CanCall /\ Called("cameraSetZoomer")
    /\ UNCHANGED histVars
    /\ IF inDraw THEN DrawStagePanic("can't change zoomer during draw stage")
       ELSE /\ zoomer' = z
            /\ UNCHANGED <<panicMsg, drawVars, redrawVars, sizeVars, scaleVars,
                           lastFlushCoordinatesTick, cameraArea, trackVars, zoomCurrent,
                           zoomTarget, shakeVars, tickVars>>


(***************************************************************************)
(* Screen shake mutators (controller_camera.go, misc.go).                  *)
(***************************************************************************)
\* setAt on the channel bank: index is 0-based; the slots a growth adds hold the
\* zero value
setAt(slice, element, index) ==
    IF index < Len(slice) THEN [slice EXCEPT ![index + 1] = element]
    ELSE [i \in 1..(index + 1) |->
             IF i <= Len(slice) THEN slice[i]
             ELSE IF i = index + 1 THEN element
             ELSE shakerChannel(NoShaker)]

\* a bank that keeps its trailing channels without a shaker
Untrimmed(bank) == bank

\* the number of trailing channels without a shaker, channel 0 excluded
RECURSIVE CompactCount(_, _)
CompactCount(bank, i) ==
    IF i <= 1 THEN 0
    ELSE IF bank[i].shaker # NoShaker THEN 0
    ELSE 1 + CompactCount(bank, i - 1)

Compacted(bank) == SubSeq(bank, 1, Len(bank) - CompactCount(bank, Len(bank)))

\* a test of the channel's range alone
shakerChannelInRange(bank, channel) == channel = 0 \/ channel < Len(bank)

shakerChannelAccessible(bank, channel) ==
    channel = 0 \/ (channel < Len(bank) /\ bank[channel + 1].shaker # NoShaker)

\* the channel method a shake call applies
ApplyShake(ch, op) ==
    IF op.kind = "start" THEN Start(ch, op.fadeIn)
    ELSE IF op.kind = "end" THEN End(ch, op.fadeOut)
    ELSE Trigger(ch, op.fadeIn, op.duration, op.fadeOut)

\* the loop over the listed channels: it stops at the first inaccessible one
RECURSIVE ShakeLoop(_, _, _)
ShakeLoop(bank, channels, op) ==
    IF channels = <<>> THEN [bank |-> bank, panicked |-> FALSE]
    ELSE IF ~shakerChannelAccessible(bank, Head(channels))
         THEN [bank |-> bank, panicked |-> TRUE]
    ELSE ShakeLoop([bank EXCEPT ![Head(channels) + 1] = ApplyShake(@, op)],
                   Tail(channels), op)

\* the channels, in range of the bank, that the loop reached before it stopped
RECURSIVE Reached(_, _)
Reached(bank, channels) ==
    IF channels = <<>> \/ ~shakerChannelAccessible(bank, Head(channels)) THEN {}
    ELSE {Head(channels)} \cup Reached(bank, Tail(channels))

HistOf(op) ==
    [mode |-> op.kind, fadeIn |-> op.fadeIn, duration |-> op.duration,
     fadeOut |-> op.fadeOut, n |-> 0, unit |-> TRUE]

\* the common body of cameraStartShake, cameraEndShake and cameraTriggerShake
cameraShake(op, channels, name) ==
    /\ CanCall /\ Called(name)
    /\ UNCHANGED <<flushRuns, twin>>
    /\ IF inDraw THEN
            DrawStagePanic("can't " \o name \o " during draw stage") /\ UNCHANGED hist
       ELSE LET list == IF channels = <<>> THEN <<0>> ELSE channels
                r == ShakeLoop(shakerChannels, list, op)
                got == Reached(shakerChannels, list)
            IN  /\ shakerChannels' = r.bank
                /\ panicMsg' = IF r.panicked
                               THEN "can't " \o name \o " on uninitialized channels" ELSE ""
                /\ hist' = [c \in 0..MaxChannel |-> IF c \in got THEN HistOf(op) ELSE hist[c]]
                /\ UNCHANGED <<drawVars, redrawVars, sizeVars, scaleVars, lastFlushCoordinatesTick,
                               cameraArea, trackVars, zoomVars, shakerOffsetX, shakerOffsetY,
                               defaultShaker, tickVars>>

cameraStartShake(fadeIn, channels) ==
    cameraShake([kind |-> "start", fadeIn |-> fadeIn, duration |-> 0, fadeOut |-> 0],
                channels, "StartShake")

cameraEndShake(fadeOut, channels) ==
    cameraShake([kind |-> "end", fadeIn |-> 0, duration |-> 0, fadeOut |-> fadeOut],
                channels, "EndShake")

cameraTriggerShake(fadeIn, duration, fadeOut, channels) ==
    cameraShake([kind |-> "trigger", fadeIn |-> fadeIn, duration |-> duration,
                 fadeOut |-> fadeOut], channels, "TriggerShake")

\* channels is the variadic argument: <<>> or one channel, or more (a fatal abort)
cameraSetShaker(newShaker, channels) ==
    /\ CanCall /\ Called("SetShaker")
    /\ UNCHANGED <<flushRuns, twin>>
    /\ IF inDraw THEN DrawStagePanic("can't SetShaker during draw stage") /\ UNCHANGED hist
       ELSE IF Len(channels) > 1 THEN
            /\ panicMsg' = "can't pass multiple shaker channels to SetShaker"
            /\ UNCHANGED <<controllerState, hist>>
       ELSE /\ panicMsg' = ""
            /\ IF Len(channels) = 0 THEN
                    /\ shakerChannels' = [shakerChannels EXCEPT ![1].shaker = newShaker]
                    /\ UNCHANGED hist
               ELSE IF newShaker = NoShaker /\ channels[1] >= Len(shakerChannels) THEN
                    UNCHANGED <<shakerChannels, hist>>
               ELSE /\ shakerChannels' =
                           Compacted(setAt(shakerChannels, shakerChannel(newShaker), channels[1]))
                    /\ hist' = [c \in 0..MaxChannel |->
                                  IF c = channels[1] THEN NoHist ELSE hist[c]]
            /\ UNCHANGED <<drawVars, redrawVars, sizeVars, scaleVars, lastFlushCoordinatesTick,
                           cameraArea, trackVars, zoomVars, shakerOffsetX, shakerOffsetY,
                           defaultShaker, tickVars>>

\* what the call gives back: the shaker it returns, or the message of its panic
cameraGetShaker(channels) ==
    IF Len(channels) = 0 THEN [panic |-> "", value |-> shakerChannels[1].shaker]
    ELSE IF Len(channels) > 1
         THEN [panic |-> "can't GetShaker for multiple shaker channels at once",
               value |-> NoShaker]
    ELSE IF channels[1] >= Len(shakerChannels) THEN [panic |-> "", value |-> NoShaker]
    ELSE [panic |-> "", value |-> shakerChannels[channels[1] + 1].shaker]

\* AccessorCamera.GetShaker: the channel argument is not passed on
GetShaker(channel) == cameraGetShaker(<<>>)


(***************************************************************************)
(* Resolution, scaling and redraw mutators (controller.go).                *)
(***************************************************************************)
setResolution(width, height) ==
    /\ CanCall /\ Called("setResolution")
    /\ UNCHANGED histVars
    /\ IF inDraw THEN DrawStagePanic("can't change resolution during draw stage")
       ELSE IF width < 1 \/ height < 1 THEN
            /\ panicMsg' = "game resolution must be at least (1, 1)"
            /\ UNCHANGED controllerState
       ELSE /\ panicMsg' = ""
            /\ IF width # logicalWidth \/ height # logicalHeight THEN
                    /\ needsRedraw' = TRUE
                    /\ logicalWidth' = width /\ logicalHeight' = height
                    /\ cameraArea' \in AreasOf(cameraAreaF64(width, height, zoomCurrent,
                                                 trackerCurrentX, trackerCurrentY,
                                                 shakerOffsetX, shakerOffsetY))
               ELSE UNCHANGED <<needsRedraw, logicalWidth, logicalHeight, cameraArea>>
            /\ UNCHANGED <<drawVars, redrawManaged, needsClear, layoutHasChanged, hiResWidth,
                           hiResHeight, prevHiResCanvasWidth, prevHiResCanvasHeight,
                           reusableCanvas, scaleVars, lastFlushCoordinatesTick, trackVars,
                           zoomVars, shakeVars, tickVars>>

setBestFitRenderSize(width, height) ==
    /\ CanCall /\ Called("setBestFitRenderSize")
    /\ UNCHANGED histVars
    /\ IF inDraw THEN DrawStagePanic("can't change resolution during draw stage")
       ELSE IF width < 1 \/ height < 1 THEN
            /\ panicMsg' = "game resolution must be at least (1, 1)"
            /\ UNCHANGED controllerState
       ELSE /\ panicMsg' = ""
            /\ IF /\ stretchingEnabled /\ keepAspectRatio
                  /\ (width # bestFitRenderSize[1] \/ height # bestFitRenderSize[2])
               THEN bestFitRenderSize' = Vec(width, height) /\ needsRedraw' = TRUE
               ELSE UNCHANGED <<bestFitRenderSize, needsRedraw>>
            /\ UNCHANGED <<drawVars, redrawManaged, needsClear, layoutHasChanged, sizeVars,
                           stretchingEnabled, keepAspectRatio, dynamicScaling, scalingFilter,
                           shaders, bestFitContextSize, lastFlushCoordinatesTick, cameraArea,
                           trackVars, zoomVars, shakeVars, tickVars>>

setBestFitContextSize(width, height) ==
    /\ CanCall /\ Called("setBestFitContextSize")
    /\ UNCHANGED histVars
    /\ IF inDraw THEN DrawStagePanic("can't change resolution during draw stage")
       ELSE IF width < 1 \/ height < 1 THEN
            /\ panicMsg' = "game resolution must be at least (1, 1)"
            /\ UNCHANGED controllerState
       ELSE /\ panicMsg' = ""
            /\ IF /\ stretchingEnabled /\ keepAspectRatio
                  /\ (width # bestFitContextSize[1] \/ height # bestFitContextSize[2])
               THEN bestFitContextSize' = Vec(width, height) /\ needsRedraw' = TRUE
               ELSE UNCHANGED <<bestFitContextSize, needsRedraw>>
            /\ UNCHANGED <<drawVars, redrawManaged, needsClear, layoutHasChanged, sizeVars,
                           stretchingEnabled, keepAspectRatio, dynamicScaling, scalingFilter,
                           shaders, bestFitRenderSize, lastFlushCoordinatesTick, cameraArea,
                           trackVars, zoomVars, shakeVars, tickVars>>

scalingSetFilter(filter) ==
    /\ CanCall /\ Called("scalingSetFilter")
    /\ UNCHANGED histVars
    /\ IF inDraw THEN DrawStagePanic("can't change scaling filter during draw stage")
       ELSE /\ panicMsg' = ""
            /\ IF filter # scalingFilter
               THEN needsRedraw' = TRUE /\ scalingFilter' = filter
               ELSE UNCHANGED <<needsRedraw, scalingFilter>>
            /\ shaders' = shaders \cup {filter}
            /\ UNCHANGED <<drawVars, redrawManaged, needsClear, layoutHasChanged, sizeVars,
                           stretchingEnabled, keepAspectRatio, dynamicScaling,
                           bestFitRenderSize, bestFitContextSize, lastFlushCoordinatesTick,
                           cameraArea, trackVars, zoomVars, shakeVars, tickVars>>

scalingSetStretchingAllowed(allowed, keepAspect, dynamic) ==
    /\ CanCall /\ Called("scalingSetStretchingAllowed")
    /\ UNCHANGED histVars
    /\ IF inDraw THEN DrawStagePanic("can't change stretching mode during draw stage")
       ELSE /\ panicMsg' = ""
            /\ IF allowed # stretchingEnabled THEN
                    /\ needsRedraw' = TRUE
                    /\ stretchingEnabled' = allowed
                    /\ keepAspectRatio' = keepAspect
                    /\ dynamicScaling' = dynamic
                    /\ needsClear' = (needsClear \/ ~allowed)
               ELSE UNCHANGED <<needsRedraw, stretchingEnabled, keepAspectRatio,
                                dynamicScaling, needsClear>>
            /\ UNCHANGED <<drawVars, redrawManaged, layoutHasChanged, sizeVars, scalingFilter,
                           shaders, bestFitRenderSize, bestFitContextSize,
                           lastFlushCoordinatesTick, cameraArea, trackVars, zoomVars,
                           shakeVars, tickVars>>

redrawSetManaged(managed) ==
    /\ CanCall /\ Called("redrawSetManaged")
    /\ UNCHANGED histVars
    /\ IF inDraw THEN DrawStagePanic("can't change redraw management during draw stage")
       ELSE /\ panicMsg' = ""
            /\ redrawManaged' = managed
            /\ UNCHANGED <<drawVars, needsRedraw, needsClear, layoutHasChanged, sizeVars,
                           scaleVars, lastFlushCoordinatesTick, cameraArea, trackVars,
                           zoomVars, shakeVars, tickVars>>

redrawRequest ==
    /\ CanCall /\ Called("redrawRequest")
    /\ UNCHANGED histVars
    /\ IF inDraw THEN DrawStagePanic("can't request redraw during draw stage")
       ELSE /\ panicMsg' = ""
            /\ needsRedraw' = TRUE
            /\ UNCHANGED <<drawVars, redrawManaged, needsClear, layoutHasChanged, sizeVars,
                           scaleVars, lastFlushCoordinatesTick, cameraArea, trackVars,
                           zoomVars, shakeVars, tickVars>>


(***************************************************************************)
(* The game loop (controller.go): Run, Layout, Update, Draw.               *)
(***************************************************************************)
run ==
    /\ panicMsg = "" /\ phase = "setup"
    /\ lastCall' = "run"
    /\ UNCHANGED histVars
    /\ IF logicalWidth = 0 \/ logicalHeight = 0 THEN
            /\ panicMsg' = "must set the game resolution before Run"
            /\ phase' = phase
            /\ UNCHANGED controllerState
       ELSE /\ panicMsg' = "" /\ phase' = "loop"
            /\ trackerCurrentX' = trackerTargetX /\ trackerCurrentY' = trackerTargetY
            /\ UNCHANGED <<drawVars, redrawVars, sizeVars, scaleVars, lastFlushCoordinatesTick,
                           cameraArea, tracker, trackerTargetX, trackerTargetY,
                           trackerPrevSpeedX, trackerPrevSpeedY, defaultTracker, zoomVars,
                           shakeVars, tickVars>>

\* scale is the monitor's device scale factor, an integer here
Layout(logicWinWidth, logicWinHeight, scale) ==
    /\ panicMsg = "" /\ phase = "loop"
    /\ lastCall' = "Layout"
    /\ LET w == IF stretchingEnabled /\ keepAspectRatio THEN logicWinWidth
                ELSE logicWinWidth * scale
           h == IF stretchingEnabled /\ keepAspectRatio THEN logicWinHeight
                ELSE logicWinHeight * scale
       IN  IF w # hiResWidth \/ h # hiResHeight
           THEN /\ layoutHasChanged' = TRUE /\ needsRedraw' = TRUE
                /\ hiResWidth' = w /\ hiResHeight' = h
           ELSE UNCHANGED <<layoutHasChanged, needsRedraw, hiResWidth, hiResHeight>>
    /\ UNCHANGED <<phase, panicMsg, drawVars, redrawManaged, needsClear, logicalWidth,
                   logicalHeight, prevHiResCanvasWidth, prevHiResCanvasHeight, reusableCanvas,
                   scaleVars, lastFlushCoordinatesTick, cameraArea, trackVars, zoomVars,
                   shakeVars, tickVars, histVars>>

\* controller.Update up to the call of Game.Update
UpdateBegin ==
    /\ panicMsg = "" /\ phase = "loop"
    /\ currentTick + tickRate <= MaxTick
    /\ currentTick' = currentTick + tickRate
    /\ phase' = "update" /\ lastCall' = "Update"
    /\ flushRuns' = 0
    /\ UNCHANGED <<panicMsg, drawVars, redrawVars, sizeVars, scaleVars,
                   lastFlushCoordinatesTick, cameraArea, trackVars, zoomVars, shakeVars,
                   tickRate, hist, twin>>

\* the end of controller.Update without its flush
UpdateEndNoFlush(zc, tc, offs) ==
    /\ panicMsg = "" /\ phase = "update"
    /\ lastCall' = "UpdateEnd"
    /\ layoutHasChanged' = FALSE /\ phase' = "loop"
    /\ UNCHANGED <<flushVars, drawVars, redrawManaged, needsClear, sizeVars, scaleVars, zoomer,
                   zoomTarget, tickVars, twin>>

\* controller.Update after Game.Update returned nil
UpdateEnd(zc, tc, offs) ==
    /\ panicMsg = "" /\ phase = "update"
    /\ lastCall' = "UpdateEnd"
    /\ cameraFlushCoordinates(zc, tc, offs)
    /\ IF panicMsg' = ""
       THEN layoutHasChanged' = FALSE /\ phase' = "loop"
       ELSE UNCHANGED <<layoutHasChanged, phase>>
    /\ UNCHANGED <<drawVars, redrawManaged, needsClear, sizeVars, scaleVars, zoomer,
                   zoomTarget, tickVars, twin>>

\* controller.Update after Game.Update returned an error
UpdateError ==
    /\ panicMsg = "" /\ phase = "update"
    /\ phase' = "stopped" /\ lastCall' = "UpdateError"
    /\ UNCHANGED <<panicMsg, controllerState, histVars>>

RMax(a, b) == IF IsNaN(a) \/ IsNaN(b) THEN NaN ELSE IF RLt(a, b) THEN b ELSE a

IMax(a, b) == IF a < b THEN b ELSE a

\* the reusable canvas after getLogicalCanvas: "nil" or its <<width, height>>
getLogicalCanvas ==
    LET width  == cameraArea.maxX - cameraArea.minX
        height == cameraArea.maxY - cameraArea.minY
    IN  IF reusableCanvas = "nil"
        THEN <<IMax(width, logicalWidth + 1), IMax(height, logicalHeight + 1)>>
        ELSE IF width <= reusableCanvas[1] /\ height <= reusableCanvas[2]
        THEN reusableCanvas
        ELSE LET zt == RMin(RMax(zoomTarget, Rat(5, 100)), RInt(1))
             IN  <<Ceil(RDiv(RInt(width + 1), zt)), Ceil(RDiv(RInt(height + 1), zt))>>

\* controller.Draw up to the call of Game.Draw; the canvas has the given size
DrawBegin(canvasWidth, canvasHeight) ==
    /\ panicMsg = "" /\ phase = "loop" /\ currentTick > 0
    /\ phase' = "draw" /\ lastCall' = "Draw"
    /\ inDraw' = TRUE
    /\ drawIndex' = 0 /\ drawn' = <<>>
    /\ UNCHANGED queuedDraws
    /\ IF canvasWidth # prevHiResCanvasWidth \/ canvasHeight # prevHiResCanvasHeight
       THEN /\ prevHiResCanvasWidth' = canvasWidth /\ prevHiResCanvasHeight' = canvasHeight
            /\ layoutHasChanged' = TRUE /\ needsRedraw' = TRUE
       ELSE UNCHANGED <<prevHiResCanvasWidth, prevHiResCanvasHeight, layoutHasChanged,
                        needsRedraw>>
    /\ reusableCanvas' = getLogicalCanvas
    /\ needsClear' = FALSE
    /\ UNCHANGED <<panicMsg, redrawManaged, logicalWidth, logicalHeight, hiResWidth,
                   hiResHeight, scaleVars, lastFlushCoordinatesTick, cameraArea, trackVars,
                   zoomVars, shakeVars, tickVars, histVars>>

\* the queue after the caller `by` has queued handlers of the kinds in more
RECURSIVE Queued(_, _, _)
Queued(queue, more, by) ==
    IF more = <<>> THEN queue
    ELSE Queued(Append(queue, [id |-> Len(queue) + 1, hiRes |-> Head(more), by |-> by]),
                Tail(more), by)

\* QueueDraw and QueueHiResDraw, called by Game.Draw: the handler goes to the end
\* of the queue.  A handler is known by its place in the queue, its kind and who
\* queued it (0: Game.Draw, i: the handler with id i).
queueDraw(hiRes) ==
    /\ CanCall /\ Called(IF hiRes THEN "QueueHiResDraw" ELSE "QueueDraw")
    /\ phase = "draw" /\ drawIndex = 0 /\ drawn = <<>>
    /\ queuedDraws' = Queued(queuedDraws, <<hiRes>>, 0)
    /\ UNCHANGED <<panicMsg, inDraw, drawIndex, drawn, redrawVars, sizeVars, scaleVars,
                   lastFlushCoordinatesTick, cameraArea, trackVars, zoomVars, shakeVars,
                   tickVars, histVars>>

\* the handler at the end of the queue
lastQueuedDraw == queuedDraws[Len(queuedDraws)]

\* the handler that the loop of controller.Draw runs next
nextQueuedDraw == queuedDraws[drawIndex + 1]

\* one turn of the loop of controller.Draw, after Game.Draw has returned: the next
\* handler runs, and queues the handlers of the kinds in more
DrawQueued(more) ==
    /\ panicMsg = "" /\ phase = "draw"
    /\ drawIndex < Len(queuedDraws)
    /\ lastCall' = "DrawQueued"
    /\ drawn' = Append(drawn, nextQueuedDraw)
    /\ queuedDraws' = Queued(queuedDraws, more, nextQueuedDraw.id)
    /\ drawIndex' = drawIndex + 1
    /\ UNCHANGED <<phase, panicMsg, inDraw, redrawVars, sizeVars, scaleVars,
                   lastFlushCoordinatesTick, cameraArea, trackVars, zoomVars, shakeVars,
                   tickVars, histVars>>

\* controller.Draw after Game.Draw and the queued draws
DrawEnd ==
    /\ panicMsg = "" /\ phase = "draw"
    /\ drawIndex >= Len(queuedDraws)
    /\ phase' = "loop" /\ lastCall' = "DrawEnd"
    /\ queuedDraws' = <<>>
    /\ needsRedraw' = FALSE
    /\ inDraw' = FALSE
    /\ UNCHANGED <<panicMsg, drawIndex, drawn, redrawManaged, needsClear, layoutHasChanged,
                   sizeVars, scaleVars, lastFlushCoordinatesTick, cameraArea, trackVars,
                   zoomVars, shakeVars, tickVars, histVars>>

\* Tick().SetRate: the ticks that one update consumes
tickSetRate(rate) ==
    /\ CanCall /\ Called("tickSetRate")
    /\ tickRate' = rate
    /\ UNCHANGED <<panicMsg, drawVars, redrawVars, sizeVars, scaleVars,
                   lastFlushCoordinatesTick, cameraArea, trackVars, zoomVars, shakeVars,
                   currentTick, histVars>>

(***************************************************************************)
(* SpecShake: the shake calls on channel 0 and the update loop, every      *)
(* update consuming one tick (the tick rate that init sets).               *)
(***************************************************************************)
Fades == 0..MaxFade

\* what the strategies return in the runs that only look at the channels' timing
NoZoomChange == RInt(0)

NoMove == <<RInt(0), RInt(0)>>

OneOffset == <<RInt(1), RInt(0)>>

SameOffsets == [i \in 1..(MaxChannel + 1) |-> OneOffset]

ShakeNext ==
    \/ setResolution(4, 2) /\ UNCHANGED nCalls
    \/ run /\ UNCHANGED nCalls
    \/ UpdateBegin /\ UNCHANGED nCalls
    \/ UpdateEnd(NoZoomChange, NoMove, SameOffsets) /\ UNCHANGED nCalls
    \/ \E f \in Fades : cameraStartShake(f, <<>>) /\ UNCHANGED nCalls
    \/ \E f \in Fades : cameraEndShake(f, <<>>) /\ UNCHANGED nCalls
    \/ \E f, d, g \in Fades : cameraTriggerShake(f, d, g, <<>>) /\ UNCHANGED nCalls

SpecShake == Init /\ [][ShakeNext]_vars


(***************************************************************************)
(* Spec: the whole controller.  The game makes at most MaxCalls calls of   *)
(* the API, anywhere it can: before Run, inside Update, inside Draw.       *)
(***************************************************************************)
MaxSetupCalls == 1

MaxCalls == 3

MaxUpdates == 1

Budget ==
    /\ nCalls < (IF phase = "setup" THEN MaxSetupCalls ELSE MaxSetupCalls + MaxCalls)
    /\ nCalls' = nCalls + 1

Half == Rat(1, 2)

MoveRight == <<RInt(1), RInt(0)>>

Next ==
    \/ setResolution(4, 2) /\ Budget
    \/ setBestFitRenderSize(4, 2) /\ Budget
    \/ setBestFitContextSize(8, 4) /\ Budget
    \/ scalingSetFilter(1) /\ Budget
    \/ scalingSetStretchingAllowed(TRUE, TRUE, FALSE) /\ Budget
    \/ redrawSetManaged(TRUE) /\ Budget
    \/ redrawRequest /\ Budget
    \/ cameraSetTracker("Instant") /\ Budget
    \/ cameraNotifyCoordinates(RInt(1), RInt(0)) /\ Budget
    \/ cameraResetCoordinates(Half, RInt(0)) /\ Budget
    \/ cameraZoom(RInt(2)) /\ Budget
    \/ cameraZoomReset(RInt(2)) /\ Budget
    \/ cameraSetZoomer("custom") /\ Budget
    \/ \E c \in {<<>>, <<1>>} : cameraSetShaker("custom", c) /\ Budget
    \/ \E c \in {<<>>, <<1>>} : cameraStartShake(MaxFade, c) /\ Budget
    \/ cameraEndShake(1, <<>>) /\ Budget
    \/ cameraTriggerShake(1, 1, 1, <<>>) /\ Budget
    \/ tickSetRate(MaxRate) /\ Budget
    \/ FlushCoordinates(Half, MoveRight, SameOffsets) /\ Budget
    \/ run /\ UNCHANGED nCalls
    \/ Layout(8, 4, 1) /\ UNCHANGED nCalls
    \/ currentTick < MaxUpdates /\ UpdateBegin /\ UNCHANGED nCalls
    \/ UpdateEnd(RInt(0), MoveRight, SameOffsets) /\ UNCHANGED nCalls
    \/ UpdateError /\ UNCHANGED nCalls
    \/ DrawBegin(8, 4) /\ UNCHANGED nCalls
    \/ DrawEnd /\ UNCHANGED nCalls

Spec == Init /\ [][Next]_vars


(***************************************************************************)
(* SpecCamera: the camera update with every kind of answer from the zoomer *)
(* and the tracker.  The game makes at most MaxCameraCalls calls, before   *)
(* Run or inside Update, and CameraUpdates updates run.                    *)
(***************************************************************************)
MaxCameraCalls == 3

CameraUpdates == MaxUpdates + 1

CameraBudget == nCalls < MaxCameraCalls /\ nCalls' = nCalls + 1

\* the logical resolutions tried
Resolutions == {<<3, 3>>, <<128, 72>>}

\* the coordinates tried
Coordinates == {<<RInt(10), RInt(0)>>, <<Half, RNeg(Half)>>}

\* what the zoomer's Update returns: no change, small steps, steps that leave the
\* range of the zoom from below and from above, and the values that are no numbers
ZoomChanges == {RInt(0), Half, RInt(-1), RInt(499), NaN, Rat(1, 0)}

\* what a tracker that is not built in returns
TrackerChanges == {NoMove, MoveRight}

CameraNext ==
    \/ \E r \in Resolutions : setResolution(r[1], r[2]) /\ CameraBudget
    \/ \E d \in BOOLEAN : scalingSetStretchingAllowed(TRUE, TRUE, d) /\ CameraBudget
    \/ cameraSetTracker("Instant") /\ CameraBudget
    \/ \E c \in Coordinates : cameraNotifyCoordinates(c[1], c[2]) /\ CameraBudget
    \/ \E c \in Coordinates : cameraResetCoordinates(c[1], c[2]) /\ CameraBudget
    \/ cameraStartShake(0, <<>>) /\ CameraBudget
    \/ \E zc \in ZoomChanges : FlushCoordinates(zc, MoveRight, SameOffsets) /\ CameraBudget
    \/ run /\ UNCHANGED nCalls
    \/ Layout(8, 4, 1) /\ UNCHANGED nCalls
    \/ currentTick < CameraUpdates /\ UpdateBegin /\ UNCHANGED nCalls
    \/ \E zc \in ZoomChanges, tc \in TrackerChanges :
          UpdateEnd(zc, tc, SameOffsets) /\ UNCHANGED nCalls

SpecCamera == Init /\ [][CameraNext]_vars


(***************************************************************************)
(* SpecBank: the bank of shaker channels.  Before Run, the game makes at   *)
(* most MaxBankCalls calls that bind and unbind shakers on the channels    *)
(* 0..BankChannels and that start, end and trigger shakes on lists of      *)
(* channels.                                                               *)
(***************************************************************************)
MaxBankCalls == 4

BankChannels == MaxChannel + 2

BankBudget == nCalls < MaxBankCalls /\ nCalls' = nCalls + 1

Shakers == {NoShaker, "custom"}

\* the variadic channel argument of SetShaker and GetShaker: none, one channel
\* (one of them past every bank that is built), or two
OneChannelArgs == {<<>>} \cup {<<c>> : c \in 0..BankChannels} \cup {<<0, 1>>}

\* the channel lists of the shake calls
ChannelLists ==
    {<<>>} \cup {<<c>> : c \in 0..(BankChannels + 1)} \cup {<<a, b>> : a, b \in 0..2}

BankNext ==
    \/ \E sh \in Shakers, c \in OneChannelArgs : cameraSetShaker(sh, c) /\ BankBudget
    \/ \E l \in ChannelLists : cameraStartShake(1, l) /\ BankBudget
    \/ \E l \in ChannelLists : cameraEndShake(1, l) /\ BankBudget
    \/ \E l \in ChannelLists : cameraTriggerShake(1, 1, 1, l) /\ BankBudget

SpecBank == Init /\ [][BankNext]_vars


(***************************************************************************)
(* SpecBestFit: the scale of the best fit.  Before Run the game turns      *)
(* stretching on, with or without dynamic scaling, and sets the render     *)
(* and context sizes of the best fit; then the window takes several sizes. *)
(***************************************************************************)
MaxBestFitCalls == 4

BestFitBudget == nCalls < MaxBestFitCalls /\ nCalls' = nCalls + 1

\* the render and context sizes tried
BestFitSizes == {<<1, 1>>, <<2, 3>>, <<4, 2>>}

\* the window sizes tried
LayoutSizes == {<<1, 4>>, <<3, 3>>, <<8, 8>>}

BestFitNext ==
    \/ \E d \in BOOLEAN : scalingSetStretchingAllowed(TRUE, TRUE, d) /\ BestFitBudget
    \/ \E z \in BestFitSizes : setBestFitRenderSize(z[1], z[2]) /\ BestFitBudget
    \/ \E z \in BestFitSizes : setBestFitContextSize(z[1], z[2]) /\ BestFitBudget
    \/ setResolution(4, 2) /\ BestFitBudget
    \/ run /\ UNCHANGED nCalls
    \/ \E z \in LayoutSizes : Layout(z[1], z[2], 1) /\ UNCHANGED nCalls

SpecBestFit == Init /\ [][BestFitNext]_vars


(***************************************************************************)
(* SpecCanvas: the reusable logical canvas.  Draws interleaved with      *)
(* updates in which the game changes the resolution, the zoom target and   *)
(* the stretching, and the zoomer and the tracker move the camera.         *)
(***************************************************************************)
MaxCanvasCalls == 3

CanvasUpdates == MaxUpdates + 2

CanvasBudget == nCalls < MaxCanvasCalls /\ nCalls' = nCalls + 1

CanvasNext ==
    \/ \E r \in {<<4, 4>>, <<8, 1>>} : setResolution(r[1], r[2]) /\ CanvasBudget
    \/ cameraZoom(Half) /\ CanvasBudget
    \/ scalingSetStretchingAllowed(TRUE, TRUE, FALSE) /\ CanvasBudget
    \/ run /\ UNCHANGED nCalls
    \/ Layout(8, 4, 1) /\ UNCHANGED nCalls
    \/ currentTick < CanvasUpdates /\ UpdateBegin /\ UNCHANGED nCalls
    \/ \E zc \in {RInt(0), RNeg(Half)}, tc \in {NoMove, <<Half, RInt(0)>>} :
          UpdateEnd(zc, tc, SameOffsets) /\ UNCHANGED nCalls
    \/ DrawBegin(8, 4) /\ UNCHANGED nCalls
    \/ DrawEnd /\ UNCHANGED nCalls

SpecCanvas == Init /\ [][CanvasNext]_vars


(***************************************************************************)
(* SpecDraw: the queue of draw handlers.  In every Draw, Game.Draw and the *)
(* handlers queue up to MaxQueued handlers of both kinds.                  *)
(***************************************************************************)
MaxQueued == 3

DrawUpdates == MaxUpdates + 1

\* the kinds of the handlers that one handler queues
QueuedKinds == {<<>>, <<FALSE>>, <<TRUE>>, <<FALSE, TRUE>>, <<TRUE, FALSE>>}

DrawNext ==
    \/ setResolution(4, 2) /\ UNCHANGED nCalls
    \/ run /\ UNCHANGED nCalls
    \/ Layout(8, 4, 1) /\ UNCHANGED nCalls
    \/ currentTick < DrawUpdates /\ UpdateBegin /\ UNCHANGED nCalls
    \/ UpdateEnd(NoZoomChange, NoMove, SameOffsets) /\ UNCHANGED nCalls
    \/ DrawBegin(8, 4) /\ UNCHANGED nCalls
    \/ \E k \in BOOLEAN : Len(queuedDraws) < MaxQueued /\ queueDraw(k) /\ UNCHANGED nCalls
    \/ \E more \in QueuedKinds :
          Len(queuedDraws) + Len(more) <= MaxQueued /\ DrawQueued(more) /\ UNCHANGED nCalls
    \/ DrawEnd /\ UNCHANGED nCalls

SpecDraw == Init /\ [][DrawNext]_vars


(***************************************************************************)
(* SpecFlush: the camera update with two shaker channels.  The game binds  *)
(* a shaker to channel 1, starts shakes and flushes by hand; the zoomer,   *)
(* the tracker and the two shakers return changes of every kind.           *)
(***************************************************************************)
MaxFlushCalls == 4

FlushUpdates == MaxUpdates + 1

FlushBudget == nCalls < MaxFlushCalls /\ nCalls' = nCalls + 1

\* what the shakers of channel 0 and of channel 1 return
TwoOffsets == [i \in 1..(MaxChannel + 1) |-> IF i = 1 THEN OneOffset ELSE <<Half, RInt(2)>>]

FlushNext ==
    \/ setResolution(128, 72) /\ FlushBudget
    \/ cameraSetShaker("custom", <<1>>) /\ FlushBudget
    \/ \E l \in {<<>>, <<1>>, <<0, 1>>} : cameraStartShake(0, l) /\ FlushBudget
    \/ \E zc \in {Half, RInt(499)} : FlushCoordinates(zc, MoveRight, TwoOffsets) /\ FlushBudget
    \/ run /\ UNCHANGED nCalls
    \/ Layout(8, 4, 1) /\ UNCHANGED nCalls
    \/ currentTick < FlushUpdates /\ UpdateBegin /\ UNCHANGED nCalls
    \/ \E zc \in {RInt(0), Half, RInt(499), NaN}, tc \in TrackerChanges :
          UpdateEnd(zc, tc, TwoOffsets) /\ UNCHANGED nCalls

SpecFlush == Init /\ [][FlushNext]_vars


(***************************************************************************)
(* SpecChannel: the methods of one shakerChannel (channel 0) called in any *)
(* order, with no controller around them.                                  *)
(***************************************************************************)
channelRest ==
    <<phase, panicMsg, nCalls, drawVars, redrawVars, sizeVars, scaleVars,
      lastFlushCoordinatesTick, cameraArea, trackVars, zoomVars, shakerOffsetX,
      shakerOffsetY, tickVars, flushRuns>>

StartOp(fadeIn) == [kind |-> "start", fadeIn |-> fadeIn, duration |-> 0, fadeOut |-> 0]

EndOp(fadeOut) == [kind |-> "end", fadeIn |-> 0, duration |-> 0, fadeOut |-> fadeOut]

TriggerOp(fadeIn, duration, fadeOut) ==
    [kind |-> "trigger", fadeIn |-> fadeIn, duration |-> duration, fadeOut |-> fadeOut]

\* one method call on channel 0; tw is the twin after the call, and record tells
\* whether the call is noted in the history
MethodCall(name, op, tw, record) ==
    /\ lastCall' = name
    /\ shakerChannels' = [shakerChannels EXCEPT ![1] = ApplyShake(@, op)]
    /\ twin' = tw
    /\ hist' = IF record THEN [hist EXCEPT ![0] = HistOf(op)] ELSE hist
    /\ UNCHANGED <<defaultShaker, channelRest>>

StartCall(fadeIn) == MethodCall("Start", StartOp(fadeIn), twin, FALSE)

EndCall(fadeOut) == MethodCall("End", EndOp(fadeOut), twin, FALSE)

TriggerCall(fadeIn, duration, fadeOut) ==
    MethodCall("Trigger", TriggerOp(fadeIn, duration, fadeOut), twin, FALSE)

\* shakerChannel.Update(0, rate) on channel 0; updates are counted up to cap
UpdateCall(rate, off, cap) ==
    /\ lastCall' = "Update"
    /\ shakerChannels' = [shakerChannels EXCEPT ![1] = ChannelUpdate(@, 0, rate, off)]
    /\ defaultShaker' = (defaultShaker \/ shakerChannels[1].shaker = NoShaker)
    /\ hist' = [hist EXCEPT ![0] = HistTick(@, rate, cap)]
    /\ UNCHANGED <<twin, channelRest>>

\* arguments of the channel's methods: small ones and the largest TicksDuration
WideFades == 0..(2 * MaxFade) \cup {maxUint32}

ChannelNext ==
    \/ \E f \in WideFades : StartCall(f)
    \/ \E f \in WideFades : EndCall(f)
    \/ \E f, d, g \in Fades : TriggerCall(f, d, g)
    \/ \E r \in 1..MaxRate : UpdateCall(r, OneOffset, MaxFade + 1)

SpecChannel == Init /\ [][ChannelNext]_vars


(***************************************************************************)
(* SpecTwin: channel 0 receives Start, End, Trigger and Update calls.  Its *)
(* twin is the same channel until an End(fadeOut): there the twin is given *)
(* the End twice, and then one more End(fadeOut) before every update, up   *)
(* to the next Start or Trigger.  Every update consumes one tick; at most  *)
(* MaxTick updates follow a call.                                          *)
(***************************************************************************)
TwinStart(fadeIn) ==
    MethodCall("Start", StartOp(fadeIn), Start(shakerChannels[1], fadeIn), TRUE)

TwinTrigger(fadeIn, duration, fadeOut) ==
    MethodCall("Trigger", TriggerOp(fadeIn, duration, fadeOut),
               Trigger(shakerChannels[1], fadeIn, duration, fadeOut), TRUE)

TwinEnd(fadeOut) ==
    MethodCall("End", EndOp(fadeOut), End(End(shakerChannels[1], fadeOut), fadeOut), TRUE)

TwinUpdate(rate, off, cap) ==
    /\ lastCall' = "Update"
    /\ shakerChannels' = [shakerChannels EXCEPT ![1] = ChannelUpdate(@, 0, rate, off)]
    /\ twin' = IF hist[0].mode = "end"
               THEN ChannelUpdate(End(twin, hist[0].fadeOut), 0, rate, off)
               ELSE ChannelUpdate(shakerChannels[1], 0, rate, off)
    /\ defaultShaker' = (defaultShaker \/ shakerChannels[1].shaker = NoShaker)
    /\ hist' = [hist EXCEPT ![0] = HistTick(@, rate, cap)]
    /\ UNCHANGED channelRest

TwinNext ==
    \/ \E f \in Fades \cup {2 * MaxFade} : TwinStart(f)
    \/ \E f, d, g \in Fades : TwinTrigger(f, d, g)
    \/ \E f \in Fades : TwinEnd(f)
    \/ hist[0].n < MaxTick /\ TwinUpdate(1, OneOffset, MaxTick)

SpecTwin == Init /\ [][TwinNext]_vars


(***************************************************************************)
(* SpecEnvelope: one Trigger on the channel that init creates, and then    *)
(* updates of one tick each.                                               *)
(***************************************************************************)
\* the (fadeIn, duration, fadeOut) tried: the small ones, the one of the
\* documentation, and one whose sum no TicksDuration holds
Envelopes ==
    ((1..MaxFade) \X Fades \X Fades) \cup {<<10, 20, 10>>, <<1, maxUint32, 1>>}

\* the updates counted after the Trigger
EnvelopeTicks == Modulus + 2

EnvelopeNext ==
    \/ /\ hist[0].mode = "none"
       /\ \E t \in Envelopes : TwinTrigger(t[1], t[2], t[3])
    \/ /\ hist[0].mode = "trigger" /\ hist[0].n < EnvelopeTicks
       /\ UpdateCall(1, OneOffset, EnvelopeTicks)

SpecEnvelope == Init /\ [][EnvelopeNext]_vars


(***************************************************************************)
(* SpecTrigger: channel 0 receives Start, End, Trigger and Update calls in *)
(* any order; then one Trigger is noted in the history, and only updates   *)
(* follow it.                                                              *)
(***************************************************************************)
\* the updates counted after the noted Trigger: one more than the longest envelope
TriggerTicks == 3 * MaxFade + 1

TriggerNext ==
    \/ /\ hist[0].mode = "none"
       /\ \E f \in Fades \cup {2 * MaxFade} : StartCall(f)
    \/ /\ hist[0].mode = "none"
       /\ \E f \in Fades : EndCall(f)
    \/ /\ hist[0].mode = "none"
       /\ \E f, d, g \in Fades : TriggerCall(f, d, g)
    \/ /\ hist[0].mode = "none"
       /\ \E r \in 1..MaxRate : UpdateCall(r, OneOffset, TriggerTicks)
    \/ /\ hist[0].mode = "none"
       /\ \E f, d, g \in Fades : TwinTrigger(f, d, g)
    \/ /\ hist[0].mode = "trigger" /\ hist[0].n < TriggerTicks
       /\ \E r \in 1..MaxRate : UpdateCall(r, OneOffset, TriggerTicks)

SpecTrigger == Init /\ [][TriggerNext]_vars


(***************************************************************************)
(* SpecRestart: on the channel that init creates, Start(fadeIn) is called  *)
(* before every update, always with the same fadeIn.  The twin receives    *)
(* the first Start only, and the same updates.                             *)
(***************************************************************************)
\* the updates counted: enough to pass the longest fade in tried
RestartTicks == 2 * MaxFade + 2

RestartStart(fadeIn) ==
    /\ lastCall \in {"init", "Update"}
    /\ hist[0].mode = "none" \/ hist[0].fadeIn = fadeIn
    /\ MethodCall("Start", StartOp(fadeIn),
                  IF hist[0].mode = "none" THEN Start(twin, fadeIn) ELSE twin,
                  hist[0].mode = "none")

RestartUpdate(rate, off, cap) ==
    /\ lastCall = "Start"
    /\ lastCall' = "Update"
    /\ shakerChannels' = [shakerChannels EXCEPT ![1] = ChannelUpdate(@, 0, rate, off)]
    /\ twin' = ChannelUpdate(twin, 0, rate, off)
    /\ defaultShaker' = (defaultShaker \/ shakerChannels[1].shaker = NoShaker)
    /\ hist' = [hist EXCEPT ![0] = HistTick(@, rate, cap)]
    /\ UNCHANGED channelRest

RestartNext ==
    \/ \E f \in WideFades : RestartStart(f)
    \/ /\ hist[0].n < RestartTicks
       /\ \E r \in 1..MaxRate : RestartUpdate(r, OneOffset, RestartTicks)

SpecRestart == Init /\ [][RestartNext]_vars


(***************************************************************************)
(* Properties of the channel's methods, checked under SpecChannel.         *)
(***************************************************************************)
Channel0 == shakerChannels[1]

Strictly(a, b, c) == RLt(a, b) /\ RLt(b, c)

\* C1: after any sequence of Start, End, Trigger and Update calls with non-negative
\* arguments, Activity() is a number in the closed interval [0, 1].
C1_ActivityInUnitInterval ==
    LET a == Activity(Channel0) IN
    IsFinite(a) /\ RLe(RInt(0), a) /\ RLe(a, RInt(1))

\* the case of C1: an update has left the channel part-way through its fade out
C1_Witness ==
    /\ lastCall = "Update"
    /\ IsFadingOut(Channel0)
    /\ Channel0.fadeOut > 1
    /\ Strictly(RInt(0), Activity(Channel0), RInt(1))

\* C2: Start preserves the activity: Activity() right after Start(fadeIn) equals
\* Activity() right before it.
C2_StartPreservesActivity ==
    [][lastCall' = "Start" => REq(Activity(shakerChannels'[1]), Activity(Channel0))]_vars

\* the case of C2 that the specification gives: half-way through a fade in, a Start
\* with the doubled fadeIn took effect and the activity still is one half
C2_Witness ==
    /\ lastCall = "Start"
    /\ Channel0.fadeIn = 4 /\ Channel0.elapsed = 2
    /\ REq(Activity(Channel0), Rat(1, 2))

\* C3: End preserves the activity, also in the middle of a fade in: Activity() right
\* after End(fadeOut) equals Activity() right before it.
C3_EndPreservesActivity ==
    [][lastCall' = "End" => REq(Activity(shakerChannels'[1]), Activity(Channel0))]_vars

\* the case of C3 where the activity is kept: End during the sustain of a shake
C3_Witness ==
    /\ lastCall = "End"
    /\ Channel0.fadeOut > 0
    /\ IsFadingOut(Channel0)
    /\ REq(Activity(Channel0), RInt(1))


(***************************************************************************)
(* Properties of the shake calls of the camera, checked under SpecShake.   *)
(***************************************************************************)
cameraIsShaking(channels) ==
    IF Len(channels) = 0 THEN \E i \in 1..Len(shakerChannels) : IsShaking(shakerChannels[i])
    ELSE IF ~shakerChannelAccessible(shakerChannels, channels[1]) THEN FALSE
    ELSE IsShaking(shakerChannels[channels[1] + 1])

\* C7: after StartShake(fadeIn) on channel 0, IsShaking is true at once and after every
\* later update, as long as no EndShake or TriggerShake is called on the channel.
C7_StartShakeIsIndefinite ==
    hist[0].mode = "start" => cameraIsShaking(<<0>>)

\* the case of C7: a started shake, still shaking some updates later
C7_Witness ==
    /\ hist[0].mode = "start" /\ hist[0].n >= 2
    /\ cameraIsShaking(<<0>>)

\* C8: after EndShake(fadeOut) on channel 0, with no later StartShake or TriggerShake,
\* IsShaking is false once fadeOut updates at tick rate 1 have run, and stays false.
C8_EndShakeStops ==
    (hist[0].mode = "end" /\ hist[0].unit /\ hist[0].n >= hist[0].fadeOut)
        => ~cameraIsShaking(<<0>>)

\* the case of C8: a shake ended during its sustain has stopped after fadeOut updates
C8_Witness ==
    /\ hist[0].mode = "end" /\ hist[0].unit
    /\ hist[0].fadeOut >= 1 /\ hist[0].n = hist[0].fadeOut
    /\ Channel0.wasActive
    /\ ~cameraIsShaking(<<0>>)


(***************************************************************************)
(* Properties of the controller, checked under Spec.                       *)
(***************************************************************************)
FlushCalls == {"FlushCoordinates", "FlushCoordinates:skipped"}

\* C4: a flush requested when a camera update already ran in the current tick changes
\* nothing: zoom, tracked position, previous speed, the channels and the camera area
\* are the same before and after it.
C4_FlushIdempotentWithinTick ==
    [][(lastCall' \in FlushCalls /\ flushRuns >= 1) => UNCHANGED cameraState]_vars

\* the case of C4: inside Update, after a flush that moved the camera and started the
\* channel's fade in, a second flush was requested
C4_Witness ==
    /\ phase = "update"
    /\ lastCall = "FlushCoordinates:skipped"
    /\ flushRuns = 1
    /\ IsShaking(Channel0) /\ Channel0.elapsed > 0

\* C5: a controller.Update whose game Update returns no error runs the camera update
\* exactly once, however many flushes the game requested; after a manual flush the
\* flush at the end of Update changes nothing.
C5_OneCameraUpdatePerTick ==
    [][(lastCall' = "UpdateEnd" /\ panicMsg' = "")
         => /\ flushRuns' = 1
            /\ lastFlushCoordinatesTick' = currentTick
            /\ (flushRuns >= 1 => UNCHANGED cameraState)]_vars

\* the case of C5: an Update in which the game flushed twice has finished
C5_Witness ==
    /\ phase = "loop" /\ lastCall = "UpdateEnd"
    /\ nCalls = MaxSetupCalls + 2
    /\ lastFlushCoordinatesTick = currentTick
    /\ flushRuns = 1
    /\ zoomCurrent = RAdd(RInt(1), Half)

DrawStageMessages ==
    {"can't change resolution during draw stage",
     "can't change scaling filter during draw stage",
     "can't change stretching mode during draw stage",
     "can't change redraw management during draw stage",
     "can't request redraw during draw stage",
     "can't set tracker during draw stage",
     "can't notify tracking coordinates during draw stage",
     "can't reset camera coordinates during draw stage",
     "can't zoom during draw stage",
     "can't reset zoom during draw stage",
     "can't change zoomer during draw stage",
     "can't SetShaker during draw stage",
     "can't StartShake during draw stage",
     "can't EndShake during draw stage",
     "can't TriggerShake during draw stage"}

Mutators ==
    {"setResolution", "setBestFitRenderSize", "setBestFitContextSize", "scalingSetFilter",
     "scalingSetStretchingAllowed", "redrawSetManaged", "redrawRequest", "cameraSetTracker",
     "cameraNotifyCoordinates", "cameraResetCoordinates", "cameraZoom", "cameraZoomReset",
     "cameraSetZoomer", "SetShaker", "StartShake", "EndShake", "TriggerShake"}

\* C6: a mutator called while a draw is in progress aborts fatally and leaves the whole
\* controller state as it was; called outside a draw, it does not abort on that guard.
C6_DrawStageGuard ==
    [][lastCall' \in Mutators
         => IF inDraw THEN panicMsg' \in DrawStageMessages /\ UNCHANGED controllerState
            ELSE panicMsg' \notin DrawStageMessages]_vars

\* the case of C6: a mutator was called inside Game.Draw and the program aborted there
C6_Witness ==
    /\ phase = "draw" /\ inDraw
    /\ lastCall = "TriggerShake"
    /\ panicMsg = "can't TriggerShake during draw stage"


(***************************************************************************)
(* Repeated End, checked under SpecTwin.                                   *)
(***************************************************************************)
\* C9: ending a shake is safe to repeat: the channel given End(fadeOut) twice in a
\* row, and once more before every update, has at every later tick the Activity()
\* and the IsShaking() of the channel given End(fadeOut) once.
C9_RepeatedEndChangesNothing ==
    hist[0].mode = "end"
        => /\ REq(Activity(twin), Activity(Channel0))
           /\ IsShaking(twin) = IsShaking(Channel0)

\* the case of C9 where the repetition is harmless: End during the sustain, some
\* ticks into the fade out
C9_Witness ==
    /\ hist[0].mode = "end" /\ hist[0].n >= 1 /\ hist[0].fadeOut >= 2
    /\ Strictly(RInt(0), Activity(Channel0), RInt(1))
    /\ IsFadingOut(Channel0)
    /\ twin = Channel0

(***************************************************************************)
(* The envelope of a triggered shake, checked under SpecEnvelope.          *)
(***************************************************************************)
\* the activity that the envelope gives n updates after Trigger(fadeIn, duration, fadeOut)
Envelope(fadeIn, duration, fadeOut, n) ==
    IF n < fadeIn THEN Rat(n, fadeIn)
    ELSE IF n <= fadeIn + duration THEN RInt(1)
    ELSE Rat(fadeOut - (n - fadeIn - duration), fadeOut)

FollowsEnvelope ==
    LET h == hist[0]
        total == h.fadeIn + h.duration + h.fadeOut
    IN  /\ IsShaking(Channel0) = (h.n < total)
        /\ h.n < total => REq(Activity(Channel0), Envelope(h.fadeIn, h.duration, h.fadeOut, h.n))

C11_TriggeredShakeEnds ==
    LET h == hist[0] IN
    (h.mode = "trigger" /\ h.unit /\ h.n >= h.fadeIn + h.duration + h.fadeOut)
        => ~IsShaking(Channel0)

\* the case of C11: the longest envelope, triggered on a channel that was shaking at
\* full activity (so that it entered the envelope at the end of the fade in), has
\* just run out
C11_Witness ==
    /\ hist[0] = [mode |-> "trigger", fadeIn |-> MaxFade, duration |-> MaxFade,
                  fadeOut |-> MaxFade, n |-> 2 * MaxFade, unit |-> TRUE]
    /\ Channel0.wasActive
    /\ Channel0.elapsed = 3 * MaxFade
    /\ ~IsShaking(Channel0)

C13_RepeatedStartSameActivity ==
    lastCall = "Start" => PassedActivity(Channel0) = PassedActivity(twin)

\* the case of C13 where the repetition is harmless: a fade in of MaxFade ticks is
\* over, the repeated Start has put elapsed back to fadeIn, and both channels are at
\* full activity
C13_Witness ==
    /\ lastCall = "Start"
    /\ hist[0].mode = "start" /\ hist[0].fadeIn = MaxFade /\ hist[0].n > MaxFade
    /\ Channel0.elapsed = MaxFade /\ twin.elapsed > MaxFade
    /\ PassedActivity(Channel0) = {RInt(1)}
    /\ PassedActivity(twin) = {RInt(1)}

(***************************************************************************)
(* Properties of the camera update, checked under SpecCamera.              *)
(***************************************************************************)
\* a step in which the body of cameraFlushCoordinates ran to its end
FlushRan ==
    /\ lastCall' \in {"FlushCoordinates", "UpdateEnd"}
    /\ lastFlushCoordinatesTick # currentTick
    /\ panicMsg' = ""

\* a step in which the zoomer answered NaN to the camera update
ZoomerReturnsNaN ==
    /\ lastFlushCoordinatesTick # currentTick
    /\ \/ FlushCoordinates(NaN, MoveRight, SameOffsets)
       \/ UpdateEnd(NaN, MoveRight, SameOffsets)

\* C14: when the zoomer returns NaN the flush aborts fatally and zoomCurrent, the
\* tracked position, every shake channel, the shake offset and the camera area keep
\* the values they had before the flush.
C14_NaNZoomerAborts ==
    [][ZoomerReturnsNaN
         => /\ panicMsg' = "zoomer returned NaN"
            /\ UNCHANGED <<zoomCurrent, trackerCurrentX, trackerCurrentY, shakerChannels,
                           shakerOffsetX, shakerOffsetY, cameraArea>>]_vars

\* the case of C14: the flush at the end of an Update aborted on a NaN while a shake
\* was waiting for its first update
C14_Witness ==
    /\ panicMsg = "zoomer returned NaN"
    /\ phase = "update" /\ lastCall = "UpdateEnd"
    /\ lastFlushCoordinatesTick = currentTick
    /\ IsShaking(Channel0) /\ Channel0.elapsed = 0
    /\ ~IsNaN(zoomCurrent)

\* C15: after every flush that completes without a fatal abort zoomCurrent lies in
\* [0.005, 500], whatever the zoomer returned; a change that would take it outside
\* makes the flush abort.
C15_ZoomStaysInRange ==
    (lastCall \in {"FlushCoordinates", "FlushCoordinates:skipped", "UpdateEnd"}
       /\ panicMsg = "")
        => RLe(Rat(5, 1000), zoomCurrent) /\ RLe(zoomCurrent, RInt(500))

\* the case of C15: two updates have completed and the zoom has reached the upper
\* limit exactly
C15_Witness ==
    /\ lastCall = "UpdateEnd" /\ panicMsg = ""
    /\ currentTick = 2
    /\ zoomCurrent = RInt(500)

\* the rectangle that C16 gives for the tracked position (x, y) and the resolution
ExpectedArea(x, y) ==
    LET w2 == RDiv(RInt(logicalWidth), RInt(2))
        h2 == RDiv(RInt(logicalHeight), RInt(2))
    IN  [minX |-> Floor(RSub(x, w2)), minY |-> Floor(RSub(y, h2)),
         maxX |-> Ceil(RAdd(x, w2)), maxY |-> Ceil(RAdd(y, h2))]

Recomputed ==
    \/ FlushRan
    \/ lastCall' = "cameraResetCoordinates" /\ panicMsg' = ""
    \/ /\ lastCall' = "setResolution" /\ panicMsg' = ""
       /\ <<logicalWidth', logicalHeight'>> # <<logicalWidth, logicalHeight>>

\* area is f with min rounded down and max rounded up: it contains the float
\* rectangle f and exceeds it by less than one on each side
RoundedOutwards(area, f) ==
    /\ IsFinite(f.minX) /\ IsFinite(f.minY) /\ IsFinite(f.maxX) /\ IsFinite(f.maxY)
    /\ area = [minX |-> Floor(f.minX), minY |-> Floor(f.minY),
               maxX |-> Ceil(f.maxX), maxY |-> Ceil(f.maxY)]
    /\ RLe(RInt(area.minX), f.minX) /\ RLt(f.minX, RInt(area.minX + 1))
    /\ RLe(RInt(area.minY), f.minY) /\ RLt(f.minY, RInt(area.minY + 1))
    /\ RLe(f.maxX, RInt(area.maxX)) /\ RLt(RInt(area.maxX - 1), f.maxX)
    /\ RLe(f.maxY, RInt(area.maxY)) /\ RLt(RInt(area.maxY - 1), f.maxY)

\* C17: right after every recomputation of the camera area the integer rectangle is
\* (floor(minX), floor(minY), ceil(maxX), ceil(maxY)) of the float bounds, so it
\* contains the float rectangle and exceeds it by less than one unit on each side.
\* (A recomputation leaves the scaling fields and the window sizes as they are.)
C17_AreaRoundsOutwards ==
    [][Recomputed
         => RoundedOutwards(cameraArea',
                cameraAreaF64(logicalWidth', logicalHeight', zoomCurrent', trackerCurrentX',
                              trackerCurrentY', shakerOffsetX', shakerOffsetY'))]_vars

\* the case of C17 where the rounding works: a flush with a shake offset has left
\* float bounds that are no integers
C17_Witness ==
    /\ lastCall = "UpdateEnd" /\ panicMsg = ""
    /\ shakerOffsetX = RInt(1)
    /\ AreaF64.minX.d = 2 /\ AreaF64.maxX.d = 2
    /\ RoundedOutwards(cameraArea, AreaF64)


(***************************************************************************)
(* The bank of shaker channels.                                            *)
(***************************************************************************)
\* a shake call of the game with the channel list l
ShakeCall(l) ==
    cameraStartShake(1, l) \/ cameraEndShake(1, l) \/ cameraTriggerShake(1, 1, 1, l)

\* some listed channel from 1 on is past the bank or has no shaker bound
ListsUnusableChannel(l) ==
    \E i \in 1..Len(l) :
        /\ l[i] >= 1
        /\ (l[i] >= Len(shakerChannels) \/ shakerChannels[l[i] + 1].shaker = NoShaker)

\* C18: outside the draw stage, StartShake, EndShake and TriggerShake abort with
\* "can't <call> on uninitialized channels" exactly when some listed channel
\* c >= 1 is out of the bank's range or has no shaker bound; a list of channel 0
\* alone, or an empty list, is accepted whether or not channel 0 has a shaker.
C18_ShakeAbortsOnUnusableChannel ==
    [][\A l \in ChannelLists :
          (~inDraw /\ ShakeCall(l)) =>
             IF ListsUnusableChannel(l)
             THEN panicMsg' = "can't " \o lastCall' \o " on uninitialized channels"
             ELSE panicMsg' = ""]_vars

\* TriggerShake stopped at channel 1, in range with no shaker, after channel 2 was
\* triggered; channel 0 has no shaker either
C18_Witness ==
    /\ panicMsg = "can't TriggerShake on uninitialized channels"
    /\ Len(shakerChannels) = 3
    /\ shakerChannels[1].shaker = NoShaker
    /\ shakerChannels[2].shaker = NoShaker
    /\ shakerChannels[3].shaker = "custom"
    /\ IsShaking(shakerChannels[3])


\* the shaker bound to channel c, none when c is past the bank
BoundShaker(c) ==
    IF c < Len(shakerChannels) THEN shakerChannels[c + 1].shaker ELSE NoShaker

\* C19: AccessorCamera.GetShaker returns the shaker bound to the channel it is
\* given (nil when that channel is out of range or unbound, channel 0's shaker
\* when no channel is given) and panics when more than one channel is given.
C19_GetShakerReturnsChannelShaker ==
    \A c \in OneChannelArgs :
        IF Len(c) > 1 THEN GetShaker(c).panic # ""
        ELSE /\ GetShaker(c).panic = ""
             /\ GetShaker(c).value = BoundShaker(IF Len(c) = 0 THEN 0 ELSE c[1])

\* with no channel given the shaker of channel 0 is returned, in a bank of two
C19_Witness ==
    /\ lastCall = "SetShaker" /\ panicMsg = ""
    /\ Len(shakerChannels) = 2
    /\ shakerChannels[1].shaker = "custom"
    /\ GetShaker(<<>>) = [panic |-> "", value |-> "custom"]


\* channel 0 is there, and the last channel of a longer bank has a shaker
Trimmed(bank) == Len(bank) >= 1 /\ (Len(bank) > 1 => bank[Len(bank)].shaker # NoShaker)

\* C20: the bank always holds channel 0 and, when it holds more channels, its last
\* channel has a shaker bound; SetShaker with a shaker on a channel c at or past
\* the bank's length makes the bank c + 1 channels long, and SetShaker with no
\* shaker on such a channel changes nothing.
C20_BankStaysTrimmed ==
    [][/\ Trimmed(shakerChannels) /\ Trimmed(shakerChannels')
       /\ \A sh \in Shakers, c \in 0..BankChannels :
             (~inDraw /\ c >= Len(shakerChannels) /\ cameraSetShaker(sh, <<c>>)) =>
                /\ panicMsg' = ""
                /\ IF sh # NoShaker
                   THEN /\ Len(shakerChannels') = c + 1
                        /\ shakerChannels'[c + 1].shaker = sh
                        /\ SubSeq(shakerChannels', 1, Len(shakerChannels)) = shakerChannels
                   ELSE shakerChannels' = shakerChannels]_vars

\* a shaker bound to the last channel tried, on a bank of one channel: the bank
\* has grown over two channels without a shaker
C20_Witness ==
    /\ lastCall = "SetShaker" /\ panicMsg = "" /\ nCalls = 1
    /\ Len(shakerChannels) = BankChannels + 1
    /\ shakerChannels[BankChannels + 1].shaker = "custom"
    /\ shakerChannels[2].shaker = NoShaker
    /\ shakerChannels[BankChannels].shaker = NoShaker


(***************************************************************************)
(* The scale of the best fit.                                              *)
(***************************************************************************)
\* the scale of one axis as described: context / render, or layout / render when
\* no context is given or when dynamic scaling finds the layout below the context
\* or the render size
AxisScale(dynamic, layout, render, context, given) ==
    IF ~given \/ (dynamic /\ (layout < context \/ layout < render))
    THEN Rat(layout, render) ELSE Rat(context, render)

\* BestFitFloat and BestFitInt on the controller's sizes, the context given or not
BestFitOf(given, allowBelowOne) ==
    BestFitFloat(dynamicScaling, hiResWidth, hiResHeight, bestFitRenderSize[1],
                 <<bestFitRenderSize[2]>>,
                 IF given THEN <<bestFitContextSize[1]>> ELSE <<>>,
                 IF given THEN <<bestFitContextSize[2]>> ELSE <<>>, allowBelowOne)

BestFitIntOf(given) ==
    BestFitInt(dynamicScaling, hiResWidth, hiResHeight, bestFitRenderSize[1],
               <<bestFitRenderSize[2]>>,
               IF given THEN <<bestFitContextSize[1]>> ELSE <<>>,
               IF given THEN <<bestFitContextSize[2]>> ELSE <<>>)

BestFitAsDescribed(given, allowBelowOne) ==
    LET sx == AxisScale(dynamicScaling, hiResWidth, bestFitRenderSize[1],
                        bestFitContextSize[1], given)
        sy == AxisScale(dynamicScaling, hiResHeight, bestFitRenderSize[2],
                        bestFitContextSize[2], given)
        m  == RMin(sx, sy)
        r  == BestFitOf(given, allowBelowOne)
    IN  /\ ~r.panic
        /\ r.value = (IF allowBelowOne THEN m ELSE RMax(RInt(1), m))
        /\ ~allowBelowOne =>
              /\ RLe(RInt(1), r.value)
              /\ ~BestFitIntOf(given).panic
              /\ \A i \in BestFitIntOf(given).values : i >= 1

CanvasGrows(old, new, width, height) ==
    /\ (new # old => (width > old[1] \/ height > old[2]))
    /\ new[1] >= old[1] /\ new[2] >= old[2]

\* C22: once the reusable canvas exists, a step replaces it only when the width
\* or the height of the camera area exceeds what the canvas holds, and neither
\* the width nor the height of the canvas ever decreases.
C22_CanvasGrowsMonotonically ==
    [][reusableCanvas # "nil" =>
          /\ reusableCanvas' # "nil"
          /\ CanvasGrows(reusableCanvas, reusableCanvas', cameraArea.maxX - cameraArea.minX,
                         cameraArea.maxY - cameraArea.minY)]_vars

\* a canvas made for the camera area, which is larger than the resolution on both
\* axes (the zoom is below 1): both sides of the canvas have grown
C22_Witness ==
    /\ lastCall = "Draw" /\ zoomTarget = RInt(1) /\ zoomCurrent = Half
    /\ logicalWidth = 4 /\ logicalHeight = 4
    /\ reusableCanvas # "nil"
    /\ reusableCanvas = <<cameraArea.maxX - cameraArea.minX + 1,
                          cameraArea.maxY - cameraArea.minY + 1>>
    /\ cameraArea.maxX - cameraArea.minX > logicalWidth + 1
    /\ cameraArea.maxY - cameraArea.minY > logicalHeight + 1


(***************************************************************************)
(* The queue of draw handlers.                                             *)
(***************************************************************************)
\* C23: within one Draw the queued handlers run after Game.Draw in the order they
\* were queued, those queued by a running handler after all earlier ones, each
\* exactly once; when Draw returns, the queue is empty and inDraw is false.
C23_QueuedDrawsRunInOrder ==
    [][/\ phase = "draw" =>
             /\ drawn = SubSeq(queuedDraws, 1, drawIndex)
             /\ \A i \in 1..Len(queuedDraws) :
                   queuedDraws[i].id = i /\ queuedDraws[i].by < i
       /\ lastCall' = "DrawEnd" =>
             /\ drawn = queuedDraws
             /\ queuedDraws' = <<>> /\ ~inDraw']_vars

\* a Draw has returned after three handlers: Game.Draw queued the first one, which
\* queued the second, which queued the third
C23_Witness ==
    /\ lastCall = "DrawEnd" /\ phase = "loop" /\ ~inDraw /\ queuedDraws = <<>>
    /\ Len(drawn) = MaxQueued
    /\ drawn[1].by = 0 /\ drawn[2].by = 1 /\ drawn[3].by = 2
    /\ drawn[1].hiRes /\ ~drawn[2].hiRes


(***************************************************************************)
(* ResetCoordinates.                                                       *)
(***************************************************************************)
\* C24: outside the draw stage, right after ResetCoordinates(x, y) the current and
\* the target tracked position are (x, y) and the camera area is the one computed
\* for (x, y) with the current zoom and shake offset; the call leaves the tick of
\* the last flush alone, so a flush that follows in a tick without a flush runs.
C24_ResetCoordinatesIsImmediate ==
    [][/\ \A c \in Coordinates :
             (~inDraw /\ cameraResetCoordinates(c[1], c[2])) =>
                /\ panicMsg' = ""
                /\ <<trackerCurrentX', trackerCurrentY'>> = c
                /\ <<trackerTargetX', trackerTargetY'>> = c
                /\ <<zoomCurrent', shakerOffsetX', shakerOffsetY'>>
                      = <<zoomCurrent, shakerOffsetX, shakerOffsetY>>
                /\ cameraArea' \in AreasOf(cameraAreaF64(logicalWidth, logicalHeight,
                                              zoomCurrent, c[1], c[2],
                                              shakerOffsetX, shakerOffsetY))
                /\ lastFlushCoordinatesTick' = lastFlushCoordinatesTick
                /\ flushRuns' = flushRuns
       /\ (/\ lastCall = "cameraResetCoordinates" /\ panicMsg = ""
           /\ lastFlushCoordinatesTick # currentTick
           /\ lastCall' \in {"FlushCoordinates", "FlushCoordinates:skipped", "UpdateEnd"}) =>
                /\ flushRuns' = flushRuns + 1
                /\ lastFlushCoordinatesTick' = currentTick]_vars

\* inside the second Update, before its flush: the camera has been put at
\* (1/2, -1/2) while zoomed and shaking, and the area is already around it
C24_Witness ==
    /\ lastCall = "cameraResetCoordinates" /\ panicMsg = "" /\ phase = "update"
    /\ lastFlushCoordinatesTick # currentTick /\ lastFlushCoordinatesTick # NeverFlushed
    /\ <<trackerCurrentX, trackerCurrentY>> = <<Half, RNeg(Half)>>
    /\ <<trackerTargetX, trackerTargetY>> = <<Half, RNeg(Half)>>
    /\ zoomCurrent = Rat(3, 2) /\ shakerOffsetX = RInt(1)
    /\ logicalWidth = 128
    /\ cameraArea = [minX |-> -42, minY |-> -25, maxX |-> 45, maxY |-> 24]


(***************************************************************************)
(* The order of the steps of a flush.                                      *)
(***************************************************************************)
\* the offsets of the channels of a bank, summed from channel 0 on
RECURSIVE OffsetsUpTo(_, _)
OffsetsUpTo(bank, i) ==
    IF i = 0 THEN <<RInt(0), RInt(0)>>
    ELSE LET before == OffsetsUpTo(bank, i - 1) IN
         <<RAdd(before[1], bank[i].offsetX), RAdd(before[2], bank[i].offsetY)>>

\* a step is a flush that ran (manual, or at the end of Update)
FlushStep ==
    /\ lastCall' \in {"FlushCoordinates", "UpdateEnd"}
    /\ lastFlushCoordinatesTick # currentTick

\* C25: a flush updates the zoom, then the tracked position, then every shaker
\* channel, then the area: a flush that stops at the zoom has changed nothing
\* after it, and after a complete flush the shake offset is the sum of the
\* channels' offsets and the camera area is the one computed for the zoom, the
\* position and the offset that this flush has produced.
C25_FlushStepsInOrder ==
    [][FlushStep =>
          /\ panicMsg' = "" =>
                /\ <<shakerOffsetX', shakerOffsetY'>>
                      = OffsetsUpTo(shakerChannels', Len(shakerChannels'))
                /\ cameraArea' \in AreasOf(cameraAreaF64(logicalWidth', logicalHeight',
                                              zoomCurrent', trackerCurrentX', trackerCurrentY',
                                              shakerOffsetX', shakerOffsetY'))
          /\ panicMsg' = "something is wrong with the zoomer: after last update, "
                          \o "zoom went outside [0.005, 500.0]" =>
                /\ zoomCurrent' # zoomCurrent
                /\ UNCHANGED <<trackerCurrentX, trackerCurrentY, shakerChannels,
                               shakerOffsetX, shakerOffsetY, cameraArea>>]_vars

\* a flush in which the zoom went from 1 to 3/2, the camera from 0 to 1 and the
\* shake offset from 0 to the sum of what the shakers of two channels returned:
\* the area is the one of the new values
C25_Witness ==
    /\ lastCall = "UpdateEnd" /\ panicMsg = "" /\ currentTick = 1
    /\ zoomCurrent = Rat(3, 2)
    /\ <<shakerOffsetX, shakerOffsetY>> = <<Rat(3, 2), RInt(2)>>
    /\ <<trackerCurrentX, trackerCurrentY>> = <<RInt(1), RInt(0)>>
    /\ logicalWidth = 128 /\ ~stretchingEnabled
    /\ cameraArea = [minX |-> -41, minY |-> -22, maxX |-> 46, maxY |-> 26]

\* ---------------------------------------------------------------------------
\* the termination call of a shake episode

\* an Update of channel 0 that finds the channel not shaking: before is the
\* channel when Update is called and after the channel it leaves
IdleUpdate(before, after) ==
    /\ PassedActivity(before) = (IF before.wasActive THEN {RInt(0)} ELSE {})
    /\ after.offsetX = RInt(0) /\ after.offsetY = RInt(0)
    /\ after.elapsed = before.elapsed
    /\ ~after.wasActive
    /\ ~IsShaking(after)
    /\ PassedActivity(after) = {}
    /\ ~before.wasActive => after = before

\* C26: wasActive is clear on a channel that never shook, only an Update that
\* finds the channel shaking sets it and only an Update changes it; an Update
\* that finds the channel not shaking issues the termination call
\* GetShakeOffsets(0) exactly when the Update before it found the channel
\* shaking, leaves the offsets at (0,0) and elapsed as it was, and leaves the
\* channel in a state where a further Update issues no strategy call
C26_OneTerminationCallPerEpisode ==
    /\ ~Channel0.wasActive
    /\ [][/\ lastCall' # "Update" => shakerChannels'[1].wasActive = Channel0.wasActive
          /\ lastCall' = "Update" =>
                /\ shakerChannels'[1].wasActive = IsShaking(Channel0)
                /\ ~IsShaking(Channel0) => IdleUpdate(Channel0, shakerChannels'[1])]_vars

\* a channel that was seen shaking by an Update has stopped and got its
\* termination call: the offsets are back at (0,0) and elapsed is at the end
C26_Witness ==
    /\ lastCall = "Update"
    /\ ~IsShaking(Channel0) /\ ~Channel0.wasActive
    /\ Channel0.elapsed = 3 /\ Channel0.fadeIn = 1 /\ Channel0.duration = 1
    /\ Channel0.fadeOut = 1
    /\ Channel0.offsetX = RInt(0) /\ Channel0.offsetY = RInt(0)

\* ---------------------------------------------------------------------------
\* Start on a channel that is already fading in

RectContains(r, f) ==
    /\ RLe(RInt(r.minX), f.minX) /\ RLe(RInt(r.minY), f.minY)
    /\ RLe(f.maxX, RInt(r.maxX)) /\ RLe(f.maxY, RInt(r.maxY))

\* C28: in every state of a program that has not panicked, the rectangle that
\* Area() returns contains the rectangle that AreaF64() returns
C28_AreaContainsAreaF64 == panicMsg = "" => RectContains(cameraArea, AreaF64)

\* the zoom was reset behind a stored area that is not the zero rectangle
C28_Witness ==
    /\ panicMsg = "" /\ lastCall = "cameraZoomReset"
    /\ cameraArea # [minX |-> 0, minY |-> 0, maxX |-> 0, maxY |-> 0]

\* ---------------------------------------------------------------------------
\* starting a shake on a channel that is not shaking

\* the channel is at the start of a fade-in of fadeIn ticks, as a fresh channel
\* is after Start(fadeIn) or Trigger(fadeIn, ...)
FadeInRestarted(ch, fadeIn) ==
    /\ IsShaking(ch)
    /\ ch.fadeIn = fadeIn /\ ch.elapsed = 0
    /\ Activity(ch) = RInt(0)

\* C29: a Start(fadeIn) or a Trigger(fadeIn, duration, fadeOut) with
\* fadeIn >= 1, called on a channel that is not shaking, leaves the channel
\* shaking at the start of its fade-in (elapsed 0, activity 0), and the Trigger
\* leaves the duration and the fadeOut it was given
C29_TriggerWhenIdleStartsAfresh ==
    [][/\ \A f \in WideFades \ {0} :
             (StartCall(f) /\ ~IsShaking(Channel0))
             => FadeInRestarted(shakerChannels'[1], f)
       /\ \A f \in Fades \ {0}, d, g \in Fades :
             (TriggerCall(f, d, g) /\ ~IsShaking(Channel0))
             => /\ FadeInRestarted(shakerChannels'[1], f)
                /\ shakerChannels'[1].duration = d
                /\ shakerChannels'[1].fadeOut = g]_vars

\* a Start(2) on a channel that stopped after a whole Trigger(1,1,1) and has
\* not had its termination call yet: the fade-in starts at elapsed 0
C29_Witness ==
    /\ lastCall = "Start"
    /\ Channel0.wasActive /\ Channel0.offsetX # RInt(0)
    /\ Channel0.elapsed = 0 /\ Channel0.fadeIn = 2
    /\ Channel0.duration = maxUint32 /\ Channel0.fadeOut = 0

\* ---------------------------------------------------------------------------
\* Activity on a channel that is not shaking

\* C30: in every state where IsShaking() is false on channel 0, Activity()
\* is 0
C30_IdleChannelHasNoActivity == ~IsShaking(Channel0) => Activity(Channel0) = RInt(0)

\* a shake with a fade-out of one tick has run to its end: the channel is not
\* shaking and its activity is 0
C30_Witness ==
    /\ lastCall = "Update"
    /\ Channel0.fadeIn = 2 /\ Channel0.duration = 1 /\ Channel0.fadeOut = 1
    /\ Channel0.elapsed = 4
    /\ ~IsShaking(Channel0) /\ Activity(Channel0) = RInt(0)

\* ---------------------------------------------------------------------------
\* a Trigger on the channel as init creates it

\* C31: a Trigger(fadeIn, duration, fadeOut) with fadeIn + duration + fadeOut > 0
\* on the channel as init creates it leaves the channel shaking
C31_NonEmptyTriggerShakes ==
    [][\A f, d, g \in Fades :
          (/\ TwinTrigger(f, d, g)
           /\ Channel0 = shakerChannel(NoShaker)
           /\ f + d + g > 0)
          => IsShaking(shakerChannels'[1])]_vars

\* Trigger(1,1,1) has just run on a channel that no Update has seen shaking,
\* and the channel shakes from elapsed 0
C31_Witness ==
    /\ lastCall = "Trigger" /\ hist[0].mode = "trigger" /\ hist[0].n = 0
    /\ Channel0 = [shakerChannel(NoShaker) EXCEPT !.fadeIn = 1, !.duration = 1, !.fadeOut = 1]
    /\ IsShaking(Channel0)

\* ---------------------------------------------------------------------------
\* SetShaker with and without the channel 0 named

\* C32: SetShaker(s, 0) leaves the bank that SetShaker(s) leaves from the same
\* state, which is the bank as it was with s as the shaker of channel 0: the
\* timing, the offsets and wasActive of channel 0 are kept
C32_SetShakerOnChannelZero ==
    [][\A s \in Shakers :
          (cameraSetShaker(s, <<0>>) /\ panicMsg' = "")
          => shakerChannels' = [shakerChannels EXCEPT ![1].shaker = s]]_vars

\* SetShaker has run on a bank whose channel 0 has a shake started
C32_Witness ==
    /\ lastCall = "SetShaker" /\ panicMsg = ""
    /\ Channel0.shaker = "custom"
    /\ Channel0.fadeIn = 1 /\ Channel0.duration = maxUint32

\* ---------------------------------------------------------------------------
\* the bank after a shake call that aborts

\* the panic of a shake call that met a channel it cannot use
ShakeAborted(msg) ==
    msg \in {"can't " \o name \o " on uninitialized channels" :
                name \in {"StartShake", "EndShake", "TriggerShake"}}

\* C33: a StartShake, EndShake or TriggerShake that aborts on a channel it
\* cannot use leaves every channel of the bank as it was before the call,
\* wherever in the list that channel stands
C33_AbortedShakeChangesNoChannel ==
    [][\A l \in ChannelLists :
          (ShakeCall(l) /\ ShakeAborted(panicMsg'))
          => shakerChannels' = shakerChannels]_vars

\* StartShake aborted on a list with channel 1 alone: the bank is as init made it
C33_Witness ==
    /\ panicMsg = "can't StartShake on uninitialized channels"
    /\ shakerChannels = <<shakerChannel(NoShaker)>>


(***************************************************************************)
(* SpecReset: the resets of the zoom and of the camera position.  The game *)
(* makes at most MaxResetCalls calls, before Run or inside Update, with    *)
(* and without managed redraws; ResetUpdates updates run, each followed by *)
(* draws.                                                                  *)
(***************************************************************************)
MaxResetCalls == 3

ResetUpdates == MaxUpdates + 1

ResetBudget == nCalls < MaxResetCalls /\ nCalls' = nCalls + 1

\* the zoom levels tried: inside the range, its two ends, and outside of it
ZoomLevels == {RInt(2), ZoomMin, ZoomMax, RInt(0), RInt(-1), RInt(501)}

ResetNext ==
    \/ setResolution(4, 2) /\ ResetBudget
    \/ redrawSetManaged(TRUE) /\ ResetBudget
    \/ \E z \in ZoomLevels : cameraZoomReset(z) /\ ResetBudget
    \/ \E c \in Coordinates : cameraResetCoordinates(c[1], c[2]) /\ ResetBudget
    \/ run /\ UNCHANGED nCalls
    \/ Layout(8, 4, 1) /\ UNCHANGED nCalls
    \/ currentTick < ResetUpdates /\ UpdateBegin /\ UNCHANGED nCalls
    \/ \E zc \in {RInt(0), Half}, tc \in TrackerChanges :
          UpdateEnd(zc, tc, SameOffsets) /\ UNCHANGED nCalls
    \/ DrawBegin(8, 4) /\ UNCHANGED nCalls
    \/ DrawEnd /\ UNCHANGED nCalls

SpecReset == Init /\ [][ResetNext]_vars

\* the zoom is a number of the range [0.005, 500]
ZoomInRange(zoom) == RLe(ZoomMin, zoom) /\ RLe(zoom, ZoomMax)

C35_StretchingFlagsAreStored ==
    [][\A allowed, keepAspect, dynamic \in BOOLEAN :
          (scalingSetStretchingAllowed(allowed, keepAspect, dynamic) /\ ~inDraw)
          => /\ stretchingEnabled' = allowed
             /\ keepAspectRatio' = keepAspect
             /\ dynamicScaling' = dynamic]_vars

\* stretching was switched on with dynamic scaling, and the flags are stored
C35_Witness ==
    /\ lastCall = "scalingSetStretchingAllowed" /\ panicMsg = "" /\ nCalls = 1
    /\ stretchingEnabled /\ keepAspectRatio /\ dynamicScaling

\* ---------------------------------------------------------------------------
\* the redraw request of a camera reset in managed-redraw mode

\* C36: with managed redraws, a cameraResetCoordinates(x, y) outside a draw with
\* (x, y) different from the current position leaves needsRedraw set
C36_ResetRequestsRedraw ==
    [][\A c \in Coordinates :
          (/\ cameraResetCoordinates(c[1], c[2])
           /\ ~inDraw /\ redrawManaged
           /\ (~REq(c[1], trackerCurrentX) \/ ~REq(c[2], trackerCurrentY)))
          => needsRedraw']_vars

\* the camera was moved by a reset inside the second Update, with managed redraws
C36_Witness ==
    /\ lastCall = "cameraResetCoordinates" /\ panicMsg = ""
    /\ redrawManaged /\ phase = "update" /\ currentTick = 2
    /\ trackerCurrentX = RInt(10)

\* ---------------------------------------------------------------------------
\* the camera during the draw stage

\* the state of the camera: zoom, tracked position, shake channels and offsets,
\* and the area
cameraNow ==
    <<zoomCurrent, trackerCurrentX, trackerCurrentY, shakerChannels, shakerOffsetX,
      shakerOffsetY, cameraArea>>

\* C37: a Draw starts with the camera flushed for the current tick, and no step
\* taken while inDraw is set - FlushCoordinates, the guarded calls that abort,
\* the tick rate, the redraw request, the end of the Draw - changes the zoom,
\* the tracked position, a shake channel, the shake offset or the camera area
C37_CameraFrozenDuringDraw ==
    [][/\ inDraw' => lastFlushCoordinatesTick' = currentTick'
       /\ inDraw => cameraNow' = cameraNow]_vars

\* FlushCoordinates was called inside Draw and found the tick already flushed
C37_Witness ==
    /\ inDraw /\ phase = "draw" /\ panicMsg = ""
    /\ lastCall = "FlushCoordinates:skipped"
    /\ lastFlushCoordinatesTick = currentTick

====
